---------------------------- MODULE Spec2Model ----------------------------
(***************************************************************************)
(* RugGuard Twitter bot (mitgajera/SolanaGuardian).                        *)
(*                                                                         *)
(* The module models the polling bot of main.py (RugGuardBot.run,          *)
(* process_trigger), the trigger listener, the trustworthiness analyzer,   *)
(* the trust-list checker and the reply bot.                               *)
(*                                                                         *)
(* Conventions                                                             *)
(*  - a Python str is a sequence of characters; a character is a           *)
(*    one-letter string, with the four non-ASCII letters of analyzer.py    *)
(*    line 309 spelled out ("eth", "Ydiaeresis", "scaron", "diaeresis");   *)
(*  - a Python float is an exact rational [n |-> numerator, d |->          *)
(*    denominator] in lowest terms; d = 0 stands for a raised              *)
(*    ZeroDivisionError;                                                   *)
(*  - time is counted in ticks of 1/TicksPerSec second since an arbitrary  *)
(*    epoch; NoTime stands for None;                                       *)
(*  - trust_list = None is the empty sequence: every read of the attribute *)
(*    goes through `not self.trust_list`, which does not tell None from    *)
(*    [].                                                                  *)
(***************************************************************************)
EXTENDS Integers, Sequences, FiniteSets, TLC

(***************************************************************************)
(* Text                                                                    *)
(***************************************************************************)
\* the letters str.lower() changes, among the characters in use
LowerMap ==
    [ A |-> "a", B |-> "b", C |-> "c", D |-> "d", E |-> "e", F |-> "f",
      G |-> "g", H |-> "h", I |-> "i", J |-> "j", K |-> "k", L |-> "l",
      M |-> "m", N |-> "n", O |-> "o", P |-> "p", Q |-> "q", R |-> "r",
      S |-> "s", T |-> "t", U |-> "u", V |-> "v", W |-> "w", X |-> "x",
      Y |-> "y", Z |-> "z", Ydiaeresis |-> "ydiaeresis" ]

LowerChar(c) == IF c \in DOMAIN LowerMap THEN LowerMap[c] ELSE c

\* str.lower()
lower(s) == [i \in 1..Len(s) |-> LowerChar(s[i])]

\* `sub in s` for two strs
Contains(sub, s) ==
    \E i \in 0..(Len(s) - Len(sub)) : \A j \in 1..Len(sub) : s[i + j] = sub[j]

\* s.rfind(' '): the 0-based index of the last space, -1 when there is none
rfind_space(s) ==
    IF \E i \in 1..Len(s) : s[i] = " "
    THEN (CHOOSE i \in 1..Len(s) :
              s[i] = " " /\ \A j \in (i + 1)..Len(s) : s[j] # " ") - 1
    ELSE -1

RECURSIVE lstrip_at(_)
\* s.lstrip('@')
lstrip_at(s) == IF s # <<>> /\ Head(s) = "@" THEN lstrip_at(Tail(s)) ELSE s

RECURSIVE lstrip_ws(_)
lstrip_ws(s) ==
    IF s # <<>> /\ Head(s) \in {" ", "\n"} THEN lstrip_ws(Tail(s)) ELSE s

RECURSIVE rstrip_ws(_)
rstrip_ws(s) ==
    IF s # <<>> /\ s[Len(s)] \in {" ", "\n"}
    THEN rstrip_ws(SubSeq(s, 1, Len(s) - 1))
    ELSE s

\* s.strip()
strip(s) == rstrip_ws(lstrip_ws(s))

(***************************************************************************)
(* Numbers                                                                 *)
(***************************************************************************)
RECURSIVE GCD(_, _)
GCD(a, b) == IF b = 0 THEN a ELSE GCD(b, a % b)

Abs(x) == IF x < 0 THEN -x ELSE x

\* the rational n/d, d > 0, in lowest terms
Q(n, d) == LET g == GCD(Abs(n), d) IN [n |-> n \div g, d |-> d \div g]

Num(x) == [n |-> x, d |-> 1]

ZeroDivisionError == [n |-> 0, d |-> 0]

IsErr(a) == a.d = 0

QAdd(a, b) ==
    IF IsErr(a) \/ IsErr(b) THEN ZeroDivisionError
    ELSE Q(a.n * b.d + b.n * a.d, a.d * b.d)

QSub(a, b) ==
    IF IsErr(a) \/ IsErr(b) THEN ZeroDivisionError
    ELSE Q(a.n * b.d - b.n * a.d, a.d * b.d)

QMul(a, b) ==
    IF IsErr(a) \/ IsErr(b) THEN ZeroDivisionError
    ELSE Q(a.n * b.n, a.d * b.d)

\* Python's a / b: raises ZeroDivisionError when b = 0
TrueDiv(a, b) ==
    IF IsErr(a) \/ IsErr(b) \/ b.n = 0 THEN ZeroDivisionError
    ELSE IF b.n > 0 THEN Q(a.n * b.d, a.d * b.n)
    ELSE Q(-(a.n * b.d), -(a.d * b.n))

QLe(a, b) == a.n * b.d <= b.n * a.d
QGe(a, b) == QLe(b, a)
QLt(a, b) == ~QLe(b, a)
QMin(a, b) == IF IsErr(a) \/ IsErr(b) THEN ZeroDivisionError
              ELSE IF QLe(a, b) THEN a ELSE b
QMax(a, b) == IF IsErr(a) \/ IsErr(b) THEN ZeroDivisionError
              ELSE IF QGe(a, b) THEN a ELSE b

RECURSIVE SumMetric(_, _)
\* sum(tweet.public_metrics[k] for tweet in tweets)
SumMetric(tweets, k) ==
    IF tweets = <<>> THEN 0
    ELSE Head(tweets).public_metrics[k] + SumMetric(Tail(tweets), k)

(***************************************************************************)
(* Time                                                                    *)
(***************************************************************************)
TicksPerSec == 2
SecTicks(s) == s * TicksPerSec
DayTicks == 86400 * TicksPerSec
NoTime == -1

\* datetime.strftime('%Y-%m-%dT%H:%M:%SZ'): the sub-second part is dropped
strftime(t) == (t \div TicksPerSec) * TicksPerSec

trigger_phrase ==
    <<"r", "i", "d", "d", "l", "e", " ", "m", "e", " ", "t", "h", "i", "s">>

(***************************************************************************)
(* analyzer.py: TrustworthinessAnalyzer                                    *)
(***************************************************************************)
suspicious_keywords ==
    << <<"g", "u", "a", "r", "a", "n", "t", "e", "e", "d">>,
       <<"r", "i", "s", "k", "-", "f", "r", "e", "e">>,
       <<"1", "0", "0", "0", "x">>,
       <<"m", "o", "o", "n">>,
       <<"l", "a", "m", "b", "o">>,
       <<"d", "i", "a", "m", "o", "n", "d", " ", "h", "a", "n", "d", "s">>,
       <<"t", "o", " ", "t", "h", "e", " ", "m", "o", "o", "n">>,
       <<"f", "i", "n", "a", "n", "c", "i", "a", "l", " ", "a", "d", "v", "i", "c", "e">>,
       <<"n", "o", "t", " ", "f", "i", "n", "a", "n", "c", "i", "a", "l", " ", "a", "d", "v", "i", "c", "e">>,
       <<"n", "f", "a">>,
       <<"d", "y", "o", "r">>,
       <<"p", "u", "m", "p">>,
       <<"d", "u", "m", "p">> >>

positive_keywords ==
    << <<"d", "e", "v", "e", "l", "o", "p", "e", "r">>,
       <<"f", "o", "u", "n", "d", "e", "r">>,
       <<"c", "t", "o">>,
       <<"c", "e", "o">>,
       <<"e", "n", "g", "i", "n", "e", "e", "r">>,
       <<"b", "l", "o", "c", "k", "c", "h", "a", "i", "n">>,
       <<"d", "e", "f", "i">>,
       <<"p", "r", "o", "t", "o", "c", "o", "l">>,
       <<"s", "e", "c", "u", "r", "i", "t", "y">>,
       <<"a", "u", "d", "i", "t">> >>

solana_keywords ==
    << <<"s", "o", "l", "a", "n", "a">>,
       <<"s", "o", "l">>,
       <<"$", "s", "o", "l">>,
       <<"s", "p", "l">>,
       <<"p", "h", "a", "n", "t", "o", "m">>,
       <<"s", "e", "r", "u", "m">> >>

suspicious_patterns ==
    << <<"b", "u", "y", " ", "n", "o", "w">>,
       <<"u", "r", "g", "e", "n", "t">>,
       <<"eth", "Ydiaeresis", "scaron", "diaeresis">>,
       <<"l", "a", "s", "t", " ", "c", "h", "a", "n", "c", "e">>,
       <<"l", "i", "m", "i", "t", "e", "d", " ", "t", "i", "m", "e">> >>

\* None, for a user object and for an analysis dict
NoUser == [none |-> TRUE]
NoAnalysis == [none |-> TRUE]

\* dict.get(key, default)
Get(dict, key, default) == IF key \in DOMAIN dict THEN dict[key] ELSE default

\* the score of a value against a descending table of (threshold, score) steps:
\* the if/elif chain `if x >= t1: s1 elif x >= t2: s2 ... else: floor`
RECURSIVE StepScore(_, _, _)
StepScore(x, steps, floor) ==
    IF steps = <<>> THEN floor
    ELSE IF QGe(x, Head(steps)[1]) THEN Head(steps)[2]
    ELSE StepScore(x, Tail(steps), floor)

\* Each _analyze_* operator yields [dict |-> the returned dict,
\* caught |-> TRUE iff its `except Exception` block ran].

\* a variant whose steps are strict: an account of exactly 730 days is not
\* yet 2+ years old
_analyze_account_age_strict(user_info, now) ==
    LET age_days == (now - user_info.created_at) \div DayTicks
        score == StepScore(Num(age_days - 1),
                           << <<Num(365 * 2), 100>>, <<Num(365), 80>>,
                              <<Num(180), 60>>, <<Num(90), 40>>,
                              <<Num(30), 20>> >>, 10)
    IN  [dict |-> [account_age_days |-> age_days,
                   account_age_score |-> Num(score)],
         caught |-> FALSE]

_analyze_account_age(user_info, now) ==
    LET age_days == (now - user_info.created_at) \div DayTicks
        score == StepScore(Num(age_days),
                           << <<Num(365 * 2), 100>>, <<Num(365), 80>>,
                              <<Num(180), 60>>, <<Num(90), 40>>,
                              <<Num(30), 20>> >>, 10)
    IN  [dict |-> [account_age_days |-> age_days,
                   account_age_score |-> Num(score)],
         caught |-> FALSE]

\* a variant without the zero-following case
follower_ratio_unguarded(followers, following) ==
    TrueDiv(Num(followers), Num(following))

\* a variant in which an account without followers and following gets ratio 0
follower_ratio_zero_floor(followers, following) ==
    IF following = 0
    THEN Num(followers)
    ELSE TrueDiv(Num(followers), Num(following))

follower_ratio_of(followers, following) ==
    IF following = 0
    THEN (IF followers > 0 THEN Num(followers) ELSE Num(1))
    ELSE TrueDiv(Num(followers), Num(following))

_analyze_follower_ratio(user_info) ==
    LET followers == user_info.public_metrics.followers_count
        following == user_info.public_metrics.following_count
        ratio == follower_ratio_of(followers, following)
        score == StepScore(ratio,
                           << <<Num(10), 100>>, <<Num(5), 80>>,
                              <<Num(2), 60>>, <<Num(1), 40>>,
                              <<Q(1, 2), 20>> >>, 10)
    IN  IF IsErr(ratio)
        THEN [dict |-> [followers_count |-> 0,
                        following_count |-> 0,
                        follower_ratio |-> Num(0),
                        follower_ratio_score |-> Num(0)],
              caught |-> TRUE]
        ELSE [dict |-> [followers_count |-> followers,
                        following_count |-> following,
                        follower_ratio |-> ratio,
                        follower_ratio_score |-> Num(score)],
              caught |-> FALSE]

\* sum(1 for keyword in keywords if keyword in text)
KeywordHits(keywords, text) ==
    Cardinality({k \in DOMAIN keywords : Contains(keywords[k], text)})

Min(a, b) == IF a <= b THEN a ELSE b
Max(a, b) == IF a >= b THEN a ELSE b

\* a variant without the upper clamp
bio_keyword_score_unclamped(positive_count, suspicious_count) ==
    Max(0, (positive_count * 20) - (suspicious_count * 15))

bio_keyword_score(positive_count, suspicious_count) ==
    Min(100, Max(0, (positive_count * 20) - (suspicious_count * 15)))

_analyze_bio_content(user_info) ==
    LET bio == user_info.description
        bio_lower == lower(bio)
        length_score == Min(100, Len(bio) * 2)
        suspicious_count == KeywordHits(suspicious_keywords, bio_lower)
        positive_count == KeywordHits(positive_keywords, bio_lower)
        keyword_score == bio_keyword_score(positive_count, suspicious_count)
        bio_score == QAdd(QMul(Num(length_score), Q(3, 10)),
                          QMul(Num(keyword_score), Q(7, 10)))
    IN  [dict |-> [bio_length |-> Len(bio),
                   bio_suspicious_keywords |-> suspicious_count,
                   bio_positive_keywords |-> positive_count,
                   bio_score |-> bio_score],
         caught |-> FALSE]

\* a variant that takes the rate as a fraction, not as a percentage
engagement_rate_fraction(avg_engagement, followers) ==
    IF followers > 0
    THEN TrueDiv(avg_engagement, Num(followers))
    ELSE Num(0)

engagement_rate_of(avg_engagement, followers) ==
    IF followers > 0
    THEN QMul(TrueDiv(avg_engagement, Num(followers)), Num(100))
    ELSE Num(0)

_analyze_engagement_metrics(user_info, recent_tweets) ==
    IF recent_tweets = <<>>
    THEN [dict |-> [avg_likes |-> Num(0), avg_retweets |-> Num(0),
                    avg_replies |-> Num(0), avg_engagement |-> Num(0),
                    engagement_score |-> Num(0)],
          caught |-> FALSE]
    ELSE
    LET total_likes == SumMetric(recent_tweets, "like_count")
        total_retweets == SumMetric(recent_tweets, "retweet_count")
        total_replies == SumMetric(recent_tweets, "reply_count")
        n == Num(Len(recent_tweets))
        avg_likes == TrueDiv(Num(total_likes), n)
        avg_retweets == TrueDiv(Num(total_retweets), n)
        avg_replies == TrueDiv(Num(total_replies), n)
        avg_engagement == QAdd(QAdd(avg_likes, avg_retweets), avg_replies)
        followers == user_info.public_metrics.followers_count
        engagement_rate == engagement_rate_of(avg_engagement, followers)
        score == StepScore(engagement_rate,
                           << <<Num(5), 100>>, <<Num(2), 80>>,
                              <<Num(1), 60>>, <<Q(1, 2), 40>>,
                              <<Q(1, 10), 20>> >>, 10)
    IN  IF IsErr(engagement_rate)
        THEN [dict |-> [avg_likes |-> Num(0), avg_retweets |-> Num(0),
                        avg_replies |-> Num(0), avg_engagement |-> Num(0),
                        engagement_rate |-> Num(0),
                        engagement_score |-> Num(0)],
              caught |-> TRUE]
        ELSE [dict |-> [avg_likes |-> avg_likes,
                        avg_retweets |-> avg_retweets,
                        avg_replies |-> avg_replies,
                        avg_engagement |-> avg_engagement,
                        engagement_rate |-> engagement_rate,
                        engagement_score |-> Num(score)],
              caught |-> FALSE]

\* the number of tweets whose lowercased text contains one of the keywords
TweetsMatching(recent_tweets, keywords) ==
    Cardinality({i \in DOMAIN recent_tweets :
        LET text_lower == lower(recent_tweets[i].text)
        IN  \E k \in DOMAIN keywords : Contains(keywords[k], text_lower)})

_analyze_tweet_content(recent_tweets) ==
    IF recent_tweets = <<>>
    THEN [dict |-> [tweet_count |-> 0, solana_mentions |-> 0,
                    suspicious_content |-> 0, content_score |-> Num(0)],
          caught |-> FALSE]
    ELSE
    LET solana_mentions == TweetsMatching(recent_tweets, solana_keywords)
        suspicious_content == TweetsMatching(recent_tweets, suspicious_patterns)
        n == Num(Len(recent_tweets))
        relevance_score ==
            QMin(Num(100), QMul(TrueDiv(Num(solana_mentions), n), Num(100)))
        suspicion_penalty ==
            QMin(Num(50), QMul(TrueDiv(Num(suspicious_content), n), Num(100)))
        content_score == QMax(Num(0), QSub(relevance_score, suspicion_penalty))
    IN  IF IsErr(content_score)
        THEN [dict |-> [tweet_count |-> 0, solana_mentions |-> 0,
                        suspicious_content |-> 0, content_score |-> Num(0)],
              caught |-> TRUE]
        ELSE [dict |-> [tweet_count |-> Len(recent_tweets),
                        solana_mentions |-> solana_mentions,
                        suspicious_content |-> suspicious_content,
                        content_score |-> content_score],
              caught |-> FALSE]

(***************************************************************************)
(* The answers of the platform to one analysis.  Each external call either *)
(* returns or raises; st is "ok", "nodata" (a response without data),      *)
(* "rate_limited" (tweepy.TooManyRequests), "forbidden" (tweepy.Forbidden) *)
(* or "error" (any other exception).  The clients are built with          *)
(* wait_on_rate_limit=True, under which a rate limit makes the client wait *)
(* and send again rather than raise; "rate_limited" is kept among the      *)
(* outcomes of the analysis and of the reply, where it only widens the     *)
(* failures considered, and is guarded by the flag for the search.         *)
(***************************************************************************)
Raises(st) == st \in {"rate_limited", "forbidden", "error"}

\* client.get_user(id=...) as used by _get_user_info: user.data or None
_get_user_info(profile) ==
    IF profile.st = "ok" THEN profile.user ELSE NoUser

\* client.get_users_tweets(...) as used by _get_recent_tweets
_get_recent_tweets(timeline) ==
    IF timeline.st = "ok" THEN timeline.tweets ELSE <<>>

\* analyze_user(user_id), given what the two fetches returned:
\* [analysis |-> the dict or NoAnalysis,
\*  caught |-> the _analyze_* methods whose except block ran]
analyze_fetched(user_info, recent_tweets, now) ==
    LET age == _analyze_account_age(user_info, now)
        ratio == _analyze_follower_ratio(user_info)
        bio == _analyze_bio_content(user_info)
        eng == _analyze_engagement_metrics(user_info, recent_tweets)
        content == _analyze_tweet_content(recent_tweets)
        user_data == [id |-> user_info.id,
                      username |-> user_info.username,
                      created_at |-> user_info.created_at,
                      followers_count |-> user_info.public_metrics.followers_count,
                      following_count |-> user_info.public_metrics.following_count]
    IN  IF user_info = NoUser
        THEN [analysis |-> NoAnalysis, caught |-> {}]
        ELSE [analysis |->
                  [user_data |-> user_data] @@ content.dict @@ eng.dict
                      @@ bio.dict @@ ratio.dict @@ age.dict,
              caught |->
                  (IF age.caught THEN {"_analyze_account_age"} ELSE {})
                  \cup (IF ratio.caught THEN {"_analyze_follower_ratio"} ELSE {})
                  \cup (IF bio.caught THEN {"_analyze_bio_content"} ELSE {})
                  \cup (IF eng.caught THEN {"_analyze_engagement_metrics"} ELSE {})
                  \cup (IF content.caught THEN {"_analyze_tweet_content"} ELSE {})]

\* a variant that gives up when the recent tweets cannot be fetched
analyze_user_abort(profile, timeline, now) ==
    IF timeline.st # "ok"
    THEN [analysis |-> NoAnalysis, caught |-> {}]
    ELSE analyze_fetched(_get_user_info(profile), _get_recent_tweets(timeline), now)

analyze_user(profile, timeline, now) ==
    analyze_fetched(_get_user_info(profile), _get_recent_tweets(timeline), now)

(***************************************************************************)
(* trust_check.py: TrustListChecker                                        *)
(***************************************************************************)
\* timedelta(hours=1)
cache_duration == SecTicks(3600)

\* values that are not a str: a JSON number among the entries of the fetched
\* list, and None as a username
JsonNumber == <<"<int>">>
NoneName == <<"<None>">>
IsStr(x) == x \notin {JsonNumber, NoneName}

\* what json.loads answers for a body that is not valid JSON
JsonInvalid == << <<"<JSONDecodeError>">> >>

\* a variant that still trusts the list when exactly one hour old
_is_trust_list_current_inclusive(trust_list, last_update, now) ==
    IF trust_list = <<>> \/ last_update = NoTime
    THEN FALSE
    ELSE now - last_update <= cache_duration

_is_trust_list_current(trust_list, last_update, now) ==
    IF trust_list = <<>> \/ last_update = NoTime
    THEN FALSE
    ELSE now - last_update < cache_duration

RECURSIVE split_lines(_)
\* content.split('\n')
split_lines(s) ==
    IF \E i \in 1..Len(s) : s[i] = "\n"
    THEN LET i == CHOOSE j \in 1..Len(s) :
                      s[j] = "\n" /\ \A k \in 1..(j - 1) : s[k] # "\n"
         IN  <<SubSeq(s, 1, i - 1)>> \o split_lines(SubSeq(s, i + 1, Len(s)))
    ELSE <<s>>

NonBlank(line) == strip(line) # <<>>

\* [line.strip() for line in content.split('\n') if line.strip()]
text_entries(content) ==
    LET kept == SelectSeq(split_lines(content), NonBlank)
    IN  [i \in 1..Len(kept) |-> strip(kept[i])]

\* _update_trust_list: fetch is the answer of requests.get, st = "ok" with
\* the body (and what json.loads makes of it) or a raised RequestException
\* (transport fault, or an HTTP error from raise_for_status); now is the
\* time at which the answer has arrived.
_update_trust_list(trust_list, last_update, fetch, now) ==
    IF Raises(fetch.st)
    THEN [trust_list |-> trust_list, last_update |-> last_update]
    ELSE
    LET content == strip(fetch.body)
        json_format == /\ content # <<>>
                       /\ Head(content) = "["
                       /\ content[Len(content)] = "]"
        loaded == IF json_format THEN fetch.json ELSE text_entries(content)
    IN  IF json_format /\ fetch.json = JsonInvalid
        THEN \* json.loads raises before the attribute is assigned
             [trust_list |-> trust_list, last_update |-> last_update]
        ELSE IF \E i \in DOMAIN loaded : ~IsStr(loaded[i])
        THEN \* line 100 has assigned the list, lstrip raises on line 106
             [trust_list |-> loaded, last_update |-> last_update]
        ELSE [trust_list |-> [i \in 1..Len(loaded) |-> lstrip_at(loaded[i])],
              last_update |-> now]

\* _check_follower_connections: lookup is the answer of get_user(username=),
\* followers the answer of get_users_followers (at most 100 users)
_check_follower_connections(username, trust_list, lookup, followers) ==
    IF trust_list = <<>> THEN 0
    ELSE IF lookup.st # "ok" THEN 0
    ELSE IF followers.st # "ok" THEN 0
    ELSE IF followers.usernames = <<>> THEN 0
    ELSE LET follower_usernames ==
                 {lower(followers.usernames[i]) : i \in DOMAIN followers.usernames}
         IN  Cardinality({i \in DOMAIN trust_list :
                              lower(trust_list[i]) \in follower_usernames})

\* a variant with the scores of two and of three connections swapped
trust_connection_score_swapped(trust_connections) ==
    IF trust_connections >= 5 THEN 100
    ELSE IF trust_connections >= 3 THEN 60
    ELSE IF trust_connections >= 2 THEN 80
    ELSE IF trust_connections >= 1 THEN 40
    ELSE 0

trust_connection_score(trust_connections) ==
    IF trust_connections >= 5 THEN 100
    ELSE IF trust_connections >= 3 THEN 80
    ELSE IF trust_connections >= 2 THEN 60
    ELSE IF trust_connections >= 1 THEN 40
    ELSE 0

\* a variant that compares the names as they are written
in_trust_list_exact(username, trust_list) ==
    username \in {trust_list[i] : i \in DOMAIN trust_list}

\* the username is directly in the trust list (line 52)
in_trust_list(username, trust_list) ==
    lower(username) \in {lower(trust_list[i]) : i \in DOMAIN trust_list}

\* the score check_trust_list returns once the list is up to date
trust_score_of(username, trust_list, lookup, followers) ==
    IF trust_list = <<>> THEN 0
    ELSE IF ~IsStr(username) \/ \E i \in DOMAIN trust_list : ~IsStr(trust_list[i])
    THEN 0      \* .lower() raises AttributeError, caught on line 74
    ELSE IF in_trust_list(username, trust_list) THEN 100
    ELSE trust_connection_score(
             _check_follower_connections(username, trust_list, lookup, followers))

\* check_trust_list(username) called at time now with the cache
\* (trust_list, last_update); env holds the answers of the external calls
\* it may make and env.latency, the ticks the trust-list fetch takes.
\* fetched tells whether requests.get was called.
check_trust_list(username, trust_list, last_update, env, now) ==
    LET current == _is_trust_list_current(trust_list, last_update, now)
        cache == IF current
                 THEN [trust_list |-> trust_list, last_update |-> last_update]
                 ELSE _update_trust_list(trust_list, last_update,
                                         env.trust_fetch, now + env.latency)
    IN  [score |-> trust_score_of(username, cache.trust_list,
                                  env.lookup, env.followers),
         trust_list |-> cache.trust_list,
         last_update |-> cache.last_update,
         fetched |-> ~current]

(***************************************************************************)
(* main.py: RugGuardBot scoring                                            *)
(***************************************************************************)
weights ==
    << <<"account_age_score", Q(15, 100)>>,
       <<"follower_ratio_score", Q(20, 100)>>,
       <<"bio_score", Q(10, 100)>>,
       <<"engagement_score", Q(25, 100)>>,
       <<"content_score", Q(20, 100)>>,
       <<"trust_list_score", Q(10, 100)>> >>

RECURSIVE WeightedSum(_, _)
WeightedSum(analysis, ws) ==
    IF ws = <<>> THEN Num(0)
    ELSE QAdd(QMul(Get(analysis, Head(ws)[1], Num(0)), Head(ws)[2]),
              WeightedSum(analysis, Tail(ws)))

\* a variant that weighs the six sub-scores evenly
_calculate_final_score_even(analysis) ==
    QMin(Num(100),
         QMax(Num(0),
              WeightedSum(analysis,
                          [i \in DOMAIN weights |-> <<weights[i][1], Q(1, 6)>>])))

_calculate_final_score(analysis) ==
    QMin(Num(100), QMax(Num(0), WeightedSum(analysis, weights)))

\* a variant whose levels start above the thresholds
trust_level_of_strict(final_score) ==
    IF QLt(Num(80), final_score) THEN "HIGHLY TRUSTED"
    ELSE IF QLt(Num(60), final_score) THEN "MODERATELY TRUSTED"
    ELSE IF QLt(Num(40), final_score) THEN "CAUTION ADVISED"
    ELSE "HIGH RISK"

\* the trust level _generate_response puts on the Status line
trust_level_of(final_score) ==
    IF QGe(final_score, Num(80)) THEN "HIGHLY TRUSTED"
    ELSE IF QGe(final_score, Num(60)) THEN "MODERATELY TRUSTED"
    ELSE IF QGe(final_score, Num(40)) THEN "CAUTION ADVISED"
    ELSE "HIGH RISK"

TrustLevels ==
    {"HIGHLY TRUSTED", "MODERATELY TRUSTED", "CAUTION ADVISED", "HIGH RISK"}

\* _generate_response: the response is kept as the values its template
\* shows, not as rendered text
_generate_response(analysis, final_score) ==
    [trust_level |-> trust_level_of(final_score),
     final_score |-> final_score,
     bio_quality |-> QLt(Num(50), Get(analysis, "bio_score", Num(0))),
     trust_list |-> QLt(Num(0), Get(analysis, "trust_list_score", Num(0)))]

\* process_trigger lines 65-87, up to the generated response: the analysis,
\* the trust check, the final score and the response.  scored is FALSE when
\* the method returns on line 70.
score_user(username, trust_list, last_update, env, now) ==
    LET a == analyze_user(env.profile, env.timeline, now)
        t == check_trust_list(username, trust_list, last_update, env, now)
        analysis == [trust_list_score |-> Num(t.score)] @@ a.analysis
        final_score == _calculate_final_score(analysis)
    IN  IF a.analysis = NoAnalysis
        THEN [scored |-> FALSE, caught |-> a.caught,
              trust_list |-> trust_list, last_update |-> last_update,
              fetched |-> FALSE]
        ELSE [scored |-> TRUE, caught |-> a.caught,
              analysis |-> analysis,
              final_score |-> final_score,
              response |-> _generate_response(analysis, final_score),
              trust_list |-> t.trust_list, last_update |-> t.last_update,
              fetched |-> t.fetched]

(***************************************************************************)
(* State                                                                   *)
(***************************************************************************)
VARIABLES
    clock,              \* the wall clock (datetime.utcnow()), in ticks
    trust_list,         \* TrustListChecker.trust_list
    last_update,        \* TrustListChecker.last_update
    env,                \* the platform's answers to the analysis under way
    out,                \* what the last operation produced
    last_check_time,    \* TriggerListener.last_check_time
    pc,                 \* the position of RugGuardBot.run
    check_count,        \* check_count of run
    current_time,       \* current_time of check_for_triggers
    triggers,           \* the triggers run has still to process
    posts,              \* the posts the platform holds
    replies,            \* per post, the replies the bot has posted to it
    search,             \* the search of the poll under way, and its answer
    prev_search,        \* the search of the poll before
    reply_message,      \* the message handed to post_reply
    submitted,          \* the text post_reply handed to create_tweet
    processed_tweets,   \* CompleteRugGuardBot.processed_tweets
    last_check          \* CompleteRugGuardBot.last_check

bot_vars == <<last_check_time, pc, check_count, current_time, triggers, posts,
              replies, search, prev_search>>
reply_vars == <<reply_message, submitted>>
scan_vars == <<processed_tweets, last_check>>
vars == <<clock, trust_list, last_update, env, out, bot_vars, reply_vars,
         scan_vars>>

(***************************************************************************)
(* Inputs                                                                  *)
(***************************************************************************)
\* the clock at start-up
Clock0 == 1000 * DayTicks

Name_al == <<"a", "l">>
Name_AL == <<"A", "L">>
Name_zed == <<"z", "e", "d">>

SampleBios ==
    << <<>>,
       <<"C", "r", "y", "p", "t", "o", " ", "e", "n", "t", "h", "u", "s", "i", "a", "s", "t", " ", "|", " ", "N", "F", "T", " ", "c", "o", "l", "l", "e", "c", "t", "o", "r", " ", "|", " ", "D", "e", "F", "i", " ", "e", "x", "p", "l", "o", "r", "e", "r">>,
       <<"d", "e", "v", "e", "l", "o", "p", "e", "r", " ", "f", "o", "u", "n", "d", "e", "r", " ", "c", "t", "o", " ", "c", "e", "o", " ", "e", "n", "g", "i", "n", "e", "e", "r", " ", "b", "l", "o", "c", "k", "c", "h", "a", "i", "n", " ", "d", "e", "f", "i", " ", "p", "r", "o", "t", "o", "c", "o", "l", " ", "s", "e", "c", "u", "r", "i", "t", "y", " ", "a", "u", "d", "i", "t">>,
       <<"G", "u", "a", "r", "a", "n", "t", "e", "e", "d", " ", "p", "u", "m", "p", ",", " ", "n", "o", "t", " ", "f", "i", "n", "a", "n", "c", "i", "a", "l", " ", "a", "d", "v", "i", "c", "e">> >>

SampleTexts ==
    << <<"g", "m">>,
       <<"S", "o", "l", "a", "n", "a">>,
       <<"B", "U", "Y", " ", "N", "O", "W", " ", "$", "S", "O", "L">>,
       <<"U", "R", "G", "E", "N", "T">>,
       <<"eth", "Ydiaeresis", "scaron", "diaeresis">> >>

SampleAges == {5, 800}
\* (followers_count, following_count)
SampleCounts == {<<0, 0>>, <<10, 0>>, <<0, 2>>, <<10, 2>>, <<2847, 1523>>}
SampleMetrics == {<<0, 0, 0>>, <<30, 15, 5>>}

\* _get_recent_tweets asks for count=20 tweets
MaxTweets == 20
SampleLengths == {1, 3, 10, MaxTweets}

User(id, username, age, followers, following, bio) ==
    [id |-> id, username |-> username,
     created_at |-> Clock0 - age * DayTicks,
     description |-> bio,
     public_metrics |-> [followers_count |-> followers,
                         following_count |-> following]]

Tweet(text, m) ==
    [text |-> text,
     public_metrics |-> [like_count |-> m[1], retweet_count |-> m[2],
                         reply_count |-> m[3]]]

\* n tweets, the first of text a, the others of text b, all with metrics m
Timeline(a, b, n, m) ==
    [i \in 1..n |-> Tweet(IF i = 1 THEN a ELSE b, m)]

SampleUsers ==
    {User(7, Name_al, age, c[1], c[2], SampleBios[b]) :
        age \in SampleAges, c \in SampleCounts, b \in DOMAIN SampleBios}

SampleTimelines ==
    {<<>>} \cup
    {Timeline(SampleTexts[a], SampleTexts[b], n, m) :
        a \in {2, 3}, b \in {1, 2}, n \in SampleLengths, m \in SampleMetrics}

Profiles ==
    [st : {"ok"}, user : SampleUsers]
    \cup [st : {"nodata", "rate_limited", "error"}, user : {NoUser}]

Timelines ==
    [st : {"ok"}, tweets : SampleTimelines]
    \cup [st : {"rate_limited", "error"}, tweets : {<<>>}]

\* bodies of the trust-list URL, with what json.loads makes of them
BodyText ==
    [st |-> "ok",
     body |-> <<"@", "A", "l", "\n", " ", "b", "o", " ", "\n", "c", "\n",
                "d", "\n", "e", "\n", "f", "\n">>,
     json |-> JsonInvalid]
BodyEmpty == [st |-> "ok", body |-> <<"\n">>, json |-> JsonInvalid]
BodyJson ==
    [st |-> "ok",
     body |-> <<"[", "\"", "@", "a", "l", "\"", ",", " ", "\"", "B", "o", "\"", "]">>,
     json |-> << <<"@", "a", "l">>, <<"B", "o">> >>]
BodyJsonNumber ==
    [st |-> "ok",
     body |-> <<"[", "\"", "a", "l", "\"", ",", " ", "5", "]">>,
     json |-> << <<"a", "l">>, JsonNumber >>]
BodyJsonBroken ==
    [st |-> "ok", body |-> <<"[", "a", "l", "]">>, json |-> JsonInvalid]
FetchFailed == [st |-> "error", body |-> <<>>, json |-> JsonInvalid]

TrustFetches ==
    {BodyText, BodyEmpty, BodyJson, BodyJsonNumber, BodyJsonBroken, FetchFailed}

NoFollowers == <<>>
OneTrusted == << <<"B", "o">> >>
TwoTrusted == << <<"b", "o">>, <<"c">> >>
ThreeTrusted == << <<"b", "o">>, <<"C">>, <<"d">> >>
FiveTrusted == << <<"b", "o">>, <<"c">>, <<"d">>, <<"e">>, <<"f">>, <<"g">> >>

FollowerSamples ==
    {NoFollowers, OneTrusted, TwoTrusted, ThreeTrusted, FiveTrusted}

FollowerAnswers ==
    [st : {"ok"}, usernames : FollowerSamples]
    \cup [st : {"rate_limited", "error"}, usernames : {<<>>}]

\* the ticks a trust-list fetch may take
MaxLatency == 1

(***************************************************************************)
(* trigger_listener.py: TriggerListener                                    *)
(***************************************************************************)
\* search_recent_tweets(max_results=10)
max_results == 10

\* line 30: the client is built with wait_on_rate_limit=True.  Such a client
\* answers an HTTP 429 by sleeping until the rate-limit window resets and
\* sending the request again; only a client built without the flag raises
\* tweepy.TooManyRequests.
wait_on_rate_limit == TRUE

\* the seconds until the rate-limit window of the search resets
rate_limit_window == 900

\* None as in_reply_to_user_id
NoUserId == 0

\* the account every reply in the model answers, and its username
TargetId == 7
UsernameOf(user_id) == Name_al

\* the exception class an outcome raises, and `except cls` matching it
ExcClass(st) ==
    CASE st = "rate_limited" -> "TooManyRequests"
      [] st = "forbidden" -> "Forbidden"
      [] OTHER -> "Exception"

IsInstance(st, cls) == cls = "Exception" \/ cls = ExcClass(st)

\* the first of the except clauses that handles the exception, 0 if none
FirstClause(clauses, st) ==
    IF \E i \in DOMAIN clauses : IsInstance(st, clauses[i])
    THEN CHOOSE i \in DOMAIN clauses :
             /\ IsInstance(st, clauses[i])
             /\ \A j \in 1..(i - 1) : ~IsInstance(st, clauses[j])
    ELSE 0

\* a variant whose handlers know tweepy.TooManyRequests alone
search_handler_narrow(st) ==
    IF ExcClass(st) = "TooManyRequests" THEN "retry_next_cycle" ELSE "propagate"

\* what becomes of an exception raised by search_recent_tweets: the inner
\* try (lines 54-69), then the outer one (lines 43, 131-135)
search_handler(st) ==
    LET inner == FirstClause(<<"TooManyRequests", "Exception">>, st)
        outer == FirstClause(<<"TooManyRequests", "Exception">>, st)
    IN  CASE inner = 1 -> "retry_next_cycle"      \* return, window kept
          [] inner = 2 -> "skip_window"           \* window advanced, return
          [] inner = 0 /\ outer = 1 -> "wait_15_min"
          [] inner = 0 /\ outer = 2 -> "logged"
          [] OTHER -> "propagate"

\* the posts the search answers for a start_time: those created at or after
\* it, the max_results newest of them.  The query's own filter is the
\* platform's business and is not relied on: any post may come back.
search_recent_tweets(all_posts, start_time) ==
    LET m == {p \in all_posts : p.created_at >= start_time}
    IN  IF Cardinality(m) <= max_results THEN m
        ELSE CHOOSE s \in SUBSET m :
                 /\ Cardinality(s) = max_results
                 /\ \A a \in s, b \in m \ s :
                        \/ a.created_at > b.created_at
                        \/ a.created_at = b.created_at /\ a.id > b.id

RECURSIVE NewestFirst(_)
\* tweets.data: the posts found, newest first
NewestFirst(s) ==
    IF s = {} THEN <<>>
    ELSE LET p == CHOOSE a \in s : \A b \in s :
                      \/ a.created_at > b.created_at
                      \/ a.created_at = b.created_at /\ a.id >= b.id
         IN  <<p>> \o NewestFirst(s \ {p})

\* a variant that compares the text as written
is_trigger_case_sensitive(tweet) ==
    /\ tweet.in_reply_to_user_id # NoUserId
    /\ Contains(lower(trigger_phrase), tweet.text)

\* lines 80-81: a reply whose text holds the trigger phrase
is_trigger(tweet) ==
    /\ tweet.in_reply_to_user_id # NoUserId
    /\ Contains(lower(trigger_phrase), lower(tweet.text))

\* lines 87-106: the username of the replied-to user; res tells whether the
\* response's includes hold the user and what the fallback get_user answers.
\* skip: the fallback raised and the loop went on to the next tweet.
resolve_username(user_id, res) ==
    IF res.included
    THEN [skip |-> FALSE, username |-> UsernameOf(user_id)]
    ELSE IF Raises(res.fallback)
    THEN [skip |-> TRUE, username |-> NoneName]
    ELSE IF res.fallback = "ok"
    THEN [skip |-> FALSE, username |-> UsernameOf(user_id)]
    ELSE [skip |-> FALSE, username |-> NoneName]

RECURSIVE collect_triggers(_, _)
\* lines 77-126: the triggers for the tweets of a response
collect_triggers(data, res) ==
    IF data = <<>> THEN <<>>
    ELSE LET tweet == Head(data)
             name == resolve_username(tweet.in_reply_to_user_id, res)
         IN  IF is_trigger(tweet) /\ ~name.skip
             THEN << [reply_tweet_id |-> tweet.id,
                      reply_author_id |-> tweet.author_id,
                      original_author_id |-> tweet.in_reply_to_user_id,
                      original_author_username |-> name.username,
                      created_at |-> tweet.created_at,
                      trigger_text |-> tweet.text] >>
                  \o collect_triggers(Tail(data), res)
             ELSE collect_triggers(Tail(data), res)

(***************************************************************************)
(* reply_bot.py: ReplyBot                                                  *)
(***************************************************************************)
\* len(message) > 280 on line 47, and the three numbers of _truncate_message
tweet_limit == 280
cut_at == 270
min_word_cut == 200

continuation_marker == <<".", ".", ".", " ", "(", "1", "/", "2", ")">>

\* a variant that keeps the first 280 characters before the marker
_truncate_message_wide(message) ==
    IF Len(message) <= tweet_limit THEN message
    ELSE LET truncated == SubSeq(message, 1, Min(tweet_limit, Len(message)))
             last_space == rfind_space(truncated)
         IN  (IF last_space > min_word_cut
              THEN SubSeq(truncated, 1, last_space)
              ELSE truncated) \o continuation_marker

\* lines 84-100
_truncate_message(message) ==
    IF Len(message) <= tweet_limit THEN message
    ELSE LET truncated == SubSeq(message, 1, Min(cut_at, Len(message)))
             last_space == rfind_space(truncated)
         IN  (IF last_space > min_word_cut
              THEN SubSeq(truncated, 1, last_space)
              ELSE truncated) \o continuation_marker

\* the text post_reply hands to create_tweet
submitted_text(message) ==
    IF Len(message) > tweet_limit THEN _truncate_message(message) ELSE message

RECURSIVE create_tweet(_)
\* client.create_tweet of lines 55-58 against the platform's answers to the
\* requests, in order.  The client of lines 22-29 is built with
\* wait_on_rate_limit=True: on a rate-limit answer it waits for the window
\* to reset and sends the request again.  st is the outcome post_reply
\* sees, attempts the requests sent, wait the seconds waited.
create_tweet(answers) ==
    IF Head(answers) = "rate_limited" /\ wait_on_rate_limit /\ Len(answers) > 1
    THEN LET r == create_tweet(Tail(answers))
         IN  [st |-> r.st, attempts |-> r.attempts + 1,
              wait |-> r.wait + rate_limit_window]
    ELSE [st |-> Head(answers), attempts |-> 1, wait |-> 0]

\* post_reply, lines 45-82: "True" when create_tweet answered with data,
\* "False" for a response without data and for an exception one of the
\* three except clauses handles, "raise" for an exception none handles
post_reply(st) ==
    IF Raises(st)
    THEN IF FirstClause(<<"TooManyRequests", "Forbidden", "Exception">>, st) # 0
         THEN "False" ELSE "raise"
    ELSE IF st = "ok" THEN "True" ELSE "False"

(***************************************************************************)
(* The bot and the reply bot before anything has happened                  *)
(***************************************************************************)
NoSearch == [st |-> "none", at |-> NoTime, requests |-> 0, limited |-> FALSE,
             results |-> {}, emitted |-> <<>>,
             res |-> [included |-> TRUE, fallback |-> "ok"]]
NoText == <<"<None>">>

\* the polls of one behaviour, the posts the platform receives, and the
\* rate-limit answers to the search of one poll
MaxChecks == 2
MaxPosts == 2
MaxRetries == 1

\* trigger_listener.py line 20: the first window opens a minute before start
BotAtStart ==
    /\ last_check_time = clock - SecTicks(60)
    /\ check_count = 0
    /\ current_time = NoTime
    /\ triggers = <<>>
    /\ posts = {}
    /\ replies = [id \in 1..MaxPosts |-> 0]
    /\ search = NoSearch
    /\ prev_search = [st |-> "none", at |-> NoTime, limited |-> FALSE]
    /\ processed_tweets = {}
    /\ last_check = NoTime

NoMessage ==
    /\ reply_message = <<>>
    /\ submitted = NoText

(***************************************************************************)
(* Scoring one account: process_trigger up to the generated response       *)
(***************************************************************************)
NoOut == [scored |-> FALSE, idle |-> TRUE]

ScoreEnvs ==
    [profile : Profiles,
     timeline : Timelines,
     username : {Name_AL, Name_zed},
     trust_fetch : {BodyText, FetchFailed},
     latency : {0},
     lookup : {[st |-> "ok"]},
     followers : [st : {"ok"}, usernames : {NoFollowers, FiveTrusted}]
                 \cup {[st |-> "error", usernames |-> <<>>]}]

InitScore ==
    /\ clock = Clock0
    /\ trust_list = <<>>
    /\ last_update = NoTime
    /\ env \in ScoreEnvs
    /\ out = NoOut
    /\ pc = "score"
    /\ BotAtStart
    /\ NoMessage

Score ==
    /\ out = NoOut
    /\ \E r \in {score_user(env.username, trust_list, last_update, env, clock)} :
           /\ out' = r
           /\ trust_list' = r.trust_list
           /\ last_update' = r.last_update
           /\ clock' = IF r.fetched THEN clock + env.latency ELSE clock
    /\ UNCHANGED <<env, bot_vars, reply_vars, scan_vars>>

NextScore == Score

SpecScore == InitScore /\ [][NextScore]_vars

\* a sub-score or a final score within [0,100]
InRange(q) == ~IsErr(q) /\ QGe(q, Num(0)) /\ QLe(q, Num(100))

SubScores ==
    {"account_age_score", "follower_ratio_score", "bio_score",
     "engagement_score", "content_score", "trust_list_score"}

(***************************************************************************)
(* The trust-list cache over time: calls of check_trust_list and           *)
(* get_trust_list_info at arbitrary times                                  *)
(***************************************************************************)
\* the calls explored in one behaviour, and the hours the clock may run
MaxCalls == 2
MaxHours == 2

\* the clock moves to one tick before, or exactly to, the end of an hour
AdvanceSteps == {cache_duration - 1, cache_duration}

TrustEnvs ==
    [username : {Name_AL, Name_zed, NoneName},
     trust_fetch : TrustFetches,
     latency : 0..MaxLatency,
     lookup : {[st |-> "ok"]},
     followers : [st : {"ok"}, usernames : {OneTrusted, FiveTrusted}]
                 \cup {[st |-> "error", usernames |-> <<>>]}]

\* get_trust_list_info takes no username and looks up no followers
InfoEnvs ==
    {e \in TrustEnvs : e.username = NoneName /\ e.followers.st = "error"}

\* env and out before the first call
NoEnv == [username |-> NoneName]
NoCall == [op |-> "none", n |-> 0]

InitTrust ==
    /\ clock = Clock0
    /\ trust_list = <<>>
    /\ last_update = NoTime
    /\ env = NoEnv
    /\ out = NoCall
    /\ pc = "trust"
    /\ BotAtStart
    /\ NoMessage

\* check_trust_list(e.username); out keeps the call, its answer and the
\* cache it found
CheckTrustList(e) ==
    /\ out.n < MaxCalls
    /\ \E r \in {check_trust_list(e.username, trust_list, last_update, e, clock)} :
           /\ out' = [op |-> "check", n |-> out.n + 1, at |-> clock,
                      username |-> e.username, score |-> r.score,
                      fetched |-> r.fetched,
                      prev_list |-> trust_list, prev_update |-> last_update]
           /\ trust_list' = r.trust_list
           /\ last_update' = r.last_update
           /\ clock' = IF r.fetched THEN clock + e.latency ELSE clock
    /\ UNCHANGED <<env, bot_vars, reply_vars, scan_vars>>

\* get_trust_list_info()
get_trust_list_info(list, update, fetch, latency, now) ==
    LET current == _is_trust_list_current(list, update, now)
        cache == IF current
                 THEN [trust_list |-> list, last_update |-> update]
                 ELSE _update_trust_list(list, update, fetch, now + latency)
        after == IF current THEN now ELSE now + latency
    IN  [count |-> Len(cache.trust_list),
         last_update |-> cache.last_update,
         is_current |-> _is_trust_list_current(cache.trust_list,
                                               cache.last_update, after),
         trust_list |-> cache.trust_list,
         fetched |-> ~current]

GetTrustListInfo(e) ==
    /\ out.n < MaxCalls
    /\ \E r \in {get_trust_list_info(trust_list, last_update, e.trust_fetch,
                                     e.latency, clock)} :
           /\ out' = [op |-> "info", n |-> out.n + 1, at |-> clock,
                      count |-> r.count, is_current |-> r.is_current,
                      fetched |-> r.fetched,
                      prev_list |-> trust_list, prev_update |-> last_update]
           /\ trust_list' = r.trust_list
           /\ last_update' = r.last_update
           /\ clock' = IF r.fetched THEN clock + e.latency ELSE clock
    /\ UNCHANGED <<env, bot_vars, reply_vars, scan_vars>>

\* time passes between two calls
Advance(d) ==
    /\ clock + d <= Clock0 + MaxHours * cache_duration
    /\ clock' = clock + d
    /\ UNCHANGED <<trust_list, last_update, env, out, bot_vars, reply_vars, scan_vars>>

NextTrust ==
    \/ \E e \in TrustEnvs : CheckTrustList(e)
    \/ \E e \in InfoEnvs : GetTrustListInfo(e)
    \/ \E d \in AdvanceSteps : Advance(d)

SpecTrust == InitTrust /\ [][NextTrust]_vars

\* the username equals an entry of the list up to letter case
MemberCI(username, list) ==
    /\ IsStr(username)
    /\ \E i \in DOMAIN list : IsStr(list[i]) /\ lower(list[i]) = lower(username)

(***************************************************************************)
(* main.py: RugGuardBot.run, the polling loop                              *)
(*                                                                         *)
(* pc is the position of run: "check" at the top of the while loop,        *)
(* "search" while the request of search_recent_tweets is under way,        *)
(* "process" in the for loop over the triggers, "sleep" before             *)
(* time.sleep(60), "crashed" once an exception has left run.               *)
(***************************************************************************)
\* time.sleep(60) on line 191, time.sleep(2) on line 185, time.sleep(900)
\* on trigger_listener.py line 133
check_interval == 60
trigger_delay == 2
rate_limit_wait == 900

Text_plain ==
    <<"g", "m", " ", "r", "i", "d", "d", "l", "e", " ", "m", "e", " ", "t", "h", "i", "s">>
Text_UPPER ==
    <<"R", "I", "D", "D", "L", "E", " ", "M", "E", " ", "T", "H", "I", "S", "!">>
Text_miss ==
    <<"r", "i", "d", "d", "l", "e", " ", "m", "e", " ", "t", "h", "i">>

PostTexts == {Text_plain, Text_UPPER, Text_miss}

\* the posts of the model: replies to the target account with and without
\* the phrase, and a post with the phrase that answers nobody
PostKinds ==
    {[text |-> Text_plain, reply_to |-> TargetId],
     [text |-> Text_UPPER, reply_to |-> TargetId],
     [text |-> Text_miss, reply_to |-> TargetId],
     [text |-> Text_plain, reply_to |-> NoUserId]}


Resolutions ==
    [included : {TRUE}, fallback : {"ok"}]
    \cup [included : {FALSE}, fallback : {"ok", "nodata", "error"}]

\* the answers of the platform while one trigger is processed
ProfileOk ==
    [st |-> "ok", user |-> User(TargetId, Name_al, 800, 2847, 1523, SampleBios[1])]
TimelineOk ==
    [st |-> "ok",
     tweets |-> Timeline(SampleTexts[2], SampleTexts[1], 1, <<30, 15, 5>>)]

AllAnswer ==
    [profile |-> ProfileOk,
     timeline |-> TimelineOk,
     trust_fetch |-> BodyText,
     latency |-> 0,
     lookup |-> [st |-> "ok"],
     followers |-> [st |-> "ok", usernames |-> OneTrusted],
     post |-> <<"ok">>]

\* the answers of the platform to the requests of one create_tweet
PostAnswers ==
    {<<"ok">>, <<"nodata">>, <<"forbidden">>, <<"error">>,
     <<"rate_limited", "ok">>}

\* every external call answers and the reply goes one of its five ways; one
\* of the calls fails; all of them fail
BotEnvs ==
    {[AllAnswer EXCEPT !.post = a] : a \in PostAnswers}
    \cup {[AllAnswer EXCEPT !.profile = [st |-> st, user |-> NoUser]] :
              st \in {"nodata", "error"}}
    \cup {[AllAnswer EXCEPT !.timeline = [st |-> "error", tweets |-> <<>>]],
           [AllAnswer EXCEPT !.trust_fetch = FetchFailed],
           [AllAnswer EXCEPT !.followers = [st |-> "rate_limited", usernames |-> <<>>]],
           [AllAnswer EXCEPT !.timeline = [st |-> "error", tweets |-> <<>>],
                             !.trust_fetch = FetchFailed,
                             !.lookup = [st |-> "error"],
                             !.followers = [st |-> "error", usernames |-> <<>>],
                             !.post = <<"forbidden">>]}

NoRun == [op |-> "none"]

\* run starts within a second, not on one
Init ==
    /\ clock = Clock0 + 1
    /\ trust_list = <<>>
    /\ last_update = NoTime
    /\ env = NoEnv
    /\ out = NoRun
    /\ pc = "check"
    /\ BotAtStart
    /\ NoMessage

\* the moments of the sleep between two polls at which a post may appear
SleepMoments == {SecTicks(check_interval) \div 2}

\* somebody posts, while a search is under way or d ticks into the sleep
\* between two polls: a reply to the target account or a post of their own
CreatePost(text, reply_to, d) ==
    /\ \/ pc = "search" /\ d = 0
       \/ pc = "sleep" /\ d # 0 /\ check_count < MaxChecks
    /\ Cardinality(posts) < MaxPosts
    /\ posts' = posts \cup {[id |-> Cardinality(posts) + 1,
                             author_id |-> 3,
                             created_at |-> clock + d,
                             in_reply_to_user_id |-> reply_to,
                             text |-> text]}
    /\ UNCHANGED <<clock, trust_list, last_update, env, out, last_check_time,
                   pc, check_count, current_time, triggers, replies, search,
                   prev_search, reply_vars, scan_vars>>

\* run line 173 to check_for_triggers line 55: the search request leaves
\* with start_time = last_check_time
BeginCheck ==
    /\ pc = "check"
    /\ check_count' = check_count + 1
    /\ current_time' = clock
    /\ triggers' = <<>>
    /\ prev_search' = [st |-> search.st, at |-> search.at,
                       limited |-> search.limited]
    /\ search' = [NoSearch EXCEPT !.st = "sent", !.at = clock, !.requests = 1]
    /\ pc' = "search"
    /\ UNCHANGED <<clock, trust_list, last_update, env, out, last_check_time,
                   posts, replies, reply_vars, scan_vars>>

\* the platform answers the search request with HTTP 429 and the client
\* waits for the window to reset, then sends the request again
SearchRateLimited ==
    /\ pc = "search"
    /\ wait_on_rate_limit
    /\ search.requests <= MaxRetries
    /\ search' = [search EXCEPT !.requests = @ + 1, !.limited = TRUE]
    /\ clock' = clock + SecTicks(rate_limit_window)
    /\ UNCHANGED <<trust_list, last_update, env, out, last_check_time, pc,
                   check_count, current_time, triggers, posts, replies,
                   prev_search, reply_vars, scan_vars>>

\* where run goes once check_for_triggers has returned (lines 179-191)
after_search(st, found) ==
    IF found = <<>> THEN "sleep" ELSE "process"

\* the search raises: check_for_triggers lines 62-69 and 131-137
SearchFails(st) ==
    /\ pc = "search"
    /\ Raises(st)
    /\ st = "rate_limited" => ~wait_on_rate_limit
    /\ \E h \in {search_handler(st)} :
           /\ last_check_time' =
                  IF h = "skip_window" THEN current_time ELSE last_check_time
           /\ clock' = IF h = "wait_15_min"
                       THEN clock + SecTicks(rate_limit_wait) ELSE clock
           /\ pc' = IF h = "propagate" THEN "crashed" ELSE after_search(st, <<>>)
    /\ search' = [search EXCEPT !.st = st, !.limited = @ \/ st = "rate_limited"]
    /\ triggers' = <<>>
    /\ UNCHANGED <<trust_list, last_update, env, out, check_count,
                   current_time, posts, replies, prev_search, reply_vars,
                   scan_vars>>

\* the search answers: check_for_triggers lines 71-129 and 137
SearchReturns(res) ==
    /\ pc = "search"
    /\ LET found == search_recent_tweets(posts, strftime(last_check_time))
           new == collect_triggers(NewestFirst(found), res)
       IN  /\ triggers' = new
           /\ search' = [search EXCEPT
                             !.st = "ok", !.results = found, !.res = res,
                             !.emitted = new]
           /\ pc' = after_search("ok", new)
    /\ last_check_time' = current_time
    /\ UNCHANGED <<clock, trust_list, last_update, env, out, check_count,
                   current_time, posts, replies, prev_search, reply_vars,
                   scan_vars>>

\* process_trigger, lines 55-112: False when the analysis is None, else
\* what post_reply returns; an exception raised in the body goes to the
\* except clause of line 109 and gives False
process_trigger(scored, post) ==
    IF ~scored THEN "False"
    ELSE IF post_reply(post) = "raise"
    THEN IF FirstClause(<<"Exception">>, post) # 0 THEN "False" ELSE "raise"
    ELSE post_reply(post)

\* run lines 183-185: process_trigger(trigger) for the next trigger, then
\* time.sleep(2); an exception leaving process_trigger leaves run (line 199)
ProcessTrigger(e) ==
    /\ pc = "process"
    /\ LET trigger == Head(triggers) IN
       \E r \in {score_user(trigger.original_author_username,
                            trust_list, last_update, e, clock)} :
       \E c \in {create_tweet(e.post)} :
       \E success \in {process_trigger(r.scored, c.st)} :
           /\ out' = [op |-> "process", scored |-> r.scored,
                      success |-> success]
           /\ clock' = clock + SecTicks(trigger_delay)
                        + (IF r.scored THEN SecTicks(c.wait) ELSE 0)
           /\ replies' = IF success = "True"
                         THEN [replies EXCEPT ![trigger.reply_tweet_id] = @ + 1]
                         ELSE replies
           /\ trust_list' = r.trust_list
           /\ last_update' = r.last_update
           /\ pc' = IF success = "raise" THEN "crashed"
                    ELSE IF Tail(triggers) = <<>> THEN "sleep" ELSE "process"
    /\ triggers' = Tail(triggers)
    /\ UNCHANGED <<env, last_check_time, check_count, current_time, posts,
                   search, prev_search, reply_vars, scan_vars>>

\* time.sleep(60); the behaviours end with the sleep after poll MaxChecks
Sleep ==
    /\ pc = "sleep"
    /\ check_count < MaxChecks
    /\ clock' = clock + SecTicks(check_interval)
    /\ pc' = "check"
    /\ UNCHANGED <<trust_list, last_update, env, out, last_check_time,
                   check_count, current_time, triggers, posts, replies,
                   search, prev_search, reply_vars, scan_vars>>

Next ==
    \/ \E k \in PostKinds, d \in {0} \cup SleepMoments : CreatePost(k.text, k.reply_to, d)
    \/ BeginCheck
    \/ SearchRateLimited
    \/ \E st \in {"rate_limited", "error"} : SearchFails(st)
    \/ \E res \in Resolutions : SearchReturns(res)
    \/ \E e \in BotEnvs : ProcessTrigger(e)
    \/ Sleep

Spec == Init /\ [][Next]_vars

(***************************************************************************)
(* reply_bot.py: post_reply on a message of any length                     *)
(***************************************************************************)
\* 0-based positions at which a sample message may hold a space
SpacePositions == {100, 200, 201, 250, 269, 270, 275}
MessageLengths == {tweet_limit - 1, tweet_limit, tweet_limit + 1, 310}

Message(len, spaces) ==
    [i \in 1..len |->
        IF (i - 1) \in spaces THEN " " ELSE IF i % 2 = 0 THEN "a" ELSE "b"]

SampleMessages ==
    {Message(len, spaces) :
        len \in MessageLengths,
        spaces \in {s \in SUBSET SpacePositions : Cardinality(s) <= 2}}

InitReply ==
    /\ reply_message \in SampleMessages
    /\ submitted = NoText
    /\ clock = Clock0
    /\ trust_list = <<>>
    /\ last_update = NoTime
    /\ env = NoEnv
    /\ out = NoRun
    /\ pc = "reply"
    /\ BotAtStart

\* post_reply(reply_to_tweet_id, message) against the platform's answers:
\* the text handed to create_tweet, the requests sent and the value returned
PostReply(answers) ==
    /\ pc = "reply"
    /\ submitted = NoText
    /\ submitted' = submitted_text(reply_message)
    /\ \E c \in {create_tweet(answers)} :
           /\ out' = [op |-> "post_reply", answer |-> Head(answers),
                      attempts |-> c.attempts, success |-> post_reply(c.st)]
           /\ clock' = clock + SecTicks(c.wait)
    /\ UNCHANGED <<reply_message, trust_list, last_update, env, bot_vars, scan_vars>>

NextReply ==
    \E answers \in PostAnswers : PostReply(answers)

SpecReply == InitReply /\ [][NextReply]_vars

(***************************************************************************)
(* analyzer.py: _analyze_account_age on accounts of every age              *)
(***************************************************************************)
\* the oldest account, in days
MaxAge == 800

\* datetime.now() falls anywhere within the day
TimesOfDay == {0, 1, DayTicks - 1}

InitAge ==
    /\ clock \in {Clock0 + t : t \in TimesOfDay}
    /\ env \in {[profile |-> [st |-> "ok",
                              user |-> User(TargetId, Name_al, age, 0, 0, <<>>)]] :
                    age \in 0..MaxAge}
    /\ trust_list = <<>>
    /\ last_update = NoTime
    /\ out = NoOut
    /\ pc = "age"
    /\ BotAtStart
    /\ NoMessage

AnalyzeAccountAge ==
    /\ pc = "age"
    /\ out = NoOut
    /\ out' = [op |-> "_analyze_account_age"]
              @@ _analyze_account_age(_get_user_info(env.profile), clock).dict
    /\ UNCHANGED <<clock, trust_list, last_update, env, bot_vars, reply_vars, scan_vars>>

NextAge == AnalyzeAccountAge

SpecAge == InitAge /\ [][NextAge]_vars

(***************************************************************************)
(* main.py: process_trigger run twice on the same account, the second run  *)
(* some time after the first, with the same answers from the platform      *)
(***************************************************************************)
\* the time between the two runs: the pause between two triggers, the
\* lifetime of the trust-list cache, a day
Pauses == {SecTicks(trigger_delay), cache_duration, DayTicks}

TwiceEnvs ==
    {[AllAnswer EXCEPT
          !.profile = [st |-> "ok",
                       user |-> User(TargetId, Name_al, age, 10, 2, SampleBios[1])],
          !.trust_fetch = f,
          !.followers = [st |-> "ok", usernames |-> g]]
     @@ [username |-> u] :
        age \in {5, 729, 730},
        f \in {BodyText, BodyJson, BodyJsonNumber, FetchFailed},
        g \in {NoFollowers, FiveTrusted},
        u \in {Name_AL, <<"B", "O">>, Name_zed}}

InitTwice ==
    /\ clock = Clock0
    /\ trust_list = <<>>
    /\ last_update = NoTime
    /\ env \in TwiceEnvs
    /\ out = [first |-> NoOut, second |-> NoOut]
    /\ pc = "first"
    /\ BotAtStart
    /\ NoMessage

\* one run of the scoring pipeline of process_trigger (lines 65-84)
ScoreRun(run, next) ==
    /\ pc = run
    /\ \E r \in {score_user(env.username, trust_list, last_update, env, clock)} :
           /\ out' = [out EXCEPT ![run] = [at |-> clock] @@ r]
           /\ trust_list' = r.trust_list
           /\ last_update' = r.last_update
    /\ pc' = next
    /\ UNCHANGED <<clock, env, last_check_time, check_count, current_time,
                   triggers, posts, replies, search, prev_search, reply_vars,
                   scan_vars>>

ScoreFirst == ScoreRun("first", "pause")

ScoreSecond == ScoreRun("second", "done")

Pause(d) ==
    /\ pc = "pause"
    /\ clock' = clock + d
    /\ pc' = "second"
    /\ UNCHANGED <<trust_list, last_update, env, out, last_check_time,
                   check_count, current_time, triggers, posts, replies, search,
                   prev_search, reply_vars, scan_vars>>

NextTwice ==
    \/ ScoreFirst
    \/ \E d \in Pauses : Pause(d)
    \/ ScoreSecond

SpecTwice == InitTwice /\ [][NextTwice]_vars

(***************************************************************************)
(* main.py: _calculate_final_score and the trust level of                  *)
(* _generate_response on analysis dicts of any sub-scores                  *)
(***************************************************************************)
\* a key the dict does not hold
Missing == [missing |-> TRUE]

SampleScores == {Missing, Num(0), Num(40), Num(60), Num(80), Num(100)}

\* bio_score is the one sub-score that is not a whole number of tens
SampleBioScores == SampleScores \cup {Num(39), Num(59), Num(79)}

\* the dict without the keys that are Missing
Dict(f) == [k \in {x \in DOMAIN f : f[x] # Missing} |-> f[k]]

SampleAnalyses ==
    {Dict(f) : f \in [account_age_score : SampleScores,
                      follower_ratio_score : SampleScores,
                      bio_score : SampleBioScores,
                      engagement_score : SampleScores,
                      content_score : SampleScores,
                      trust_list_score : SampleScores]}

InitFinal ==
    /\ clock = Clock0
    /\ trust_list = <<>>
    /\ last_update = NoTime
    /\ env \in [analysis : SampleAnalyses]
    /\ out = NoOut
    /\ pc = "final"
    /\ BotAtStart
    /\ NoMessage

CalculateFinalScore ==
    /\ pc = "final"
    /\ out' = [final_score |-> _calculate_final_score(env.analysis)]
    /\ pc' = "respond"
    /\ UNCHANGED <<clock, trust_list, last_update, env, last_check_time,
                   check_count, current_time, triggers, posts, replies, search,
                   prev_search, reply_vars, scan_vars>>

GenerateResponse ==
    /\ pc = "respond"
    /\ out' = [final_score |-> out.final_score,
               response |-> _generate_response(env.analysis, out.final_score)]
    /\ pc' = "responded"
    /\ UNCHANGED <<clock, trust_list, last_update, env, last_check_time,
                   check_count, current_time, triggers, posts, replies, search,
                   prev_search, reply_vars, scan_vars>>

NextFinal == CalculateFinalScore \/ GenerateResponse

SpecFinal == InitFinal /\ [][NextFinal]_vars

(***************************************************************************)
(* complete_rugguard.py: CompleteRugGuardBot.run_complete, whose client is *)
(* built with wait_on_rate_limit=False                                     *)
(*                                                                         *)
(* pc is "scan" before scan_and_reply, "wait" before time.sleep(60).       *)
(***************************************************************************)
\* the scans of one behaviour, and the posts the platform receives
MaxScans == 3
MaxScanPosts == 4

\* time.sleep(60) of run_complete, and the hour __init__ looks back
scan_interval == 60
scan_lookback == 3600

InitScan ==
    /\ clock = Clock0
    /\ processed_tweets = {}
    /\ last_check = Clock0 - SecTicks(scan_lookback)
    /\ posts = {}
    /\ pc = "scan"
    /\ out = [op |-> "none", scans |-> 0]
    /\ trust_list = <<>>
    /\ last_update = NoTime
    /\ env = NoEnv
    /\ last_check_time = clock - SecTicks(60)
    /\ check_count = 0
    /\ current_time = NoTime
    /\ triggers = <<>>
    /\ replies = [id \in 1..MaxScanPosts |-> 0]
    /\ search = NoSearch
    /\ prev_search = [st |-> "none", at |-> NoTime, limited |-> FALSE]
    /\ NoMessage

\* somebody posts the phrase, as a reply to the target account or as a post
\* of their own
TriggerPosted(reply_to) ==
    /\ Cardinality(posts) < MaxScanPosts
    /\ posts' = posts \cup {[id |-> Cardinality(posts) + 1,
                             author_id |-> 3,
                             created_at |-> clock,
                             in_reply_to_user_id |-> reply_to,
                             text |-> Text_plain]}
    /\ UNCHANGED <<clock, trust_list, last_update, env, out, last_check_time,
                   pc, check_count, current_time, triggers, replies, search,
                   prev_search, reply_vars, scan_vars>>

\* the tweets of tweets.data for which scan_and_reply calls create_tweet
\* (lines 82-100): those not in processed_tweets that are replies
attempted(found, processed) ==
    {p.id : p \in {q \in found : /\ q.id \notin processed
                                 /\ q.in_reply_to_user_id # NoUserId}}

\* a variant that remembers every tweet it called create_tweet for
replied_to_attempted(found, processed, answer) == attempted(found, processed)

\* the tweets scan_and_reply remembers (lines 105-108): those for which
\* create_tweet returned a response with data
replied_to(found, processed, answer) ==
    {id \in attempted(found, processed) : answer[id] = "ok"}

\* scan_and_reply: st is the answer to the search, answer[id] the answer to
\* create_tweet for the post id; replies counts the replies the platform
\* has accepted
ScanAndReply(st, answer) ==
    /\ pc = "scan"
    /\ out.scans < MaxScans
    /\ IF Raises(st)
       THEN /\ out' = [op |-> "scan_and_reply", scans |-> out.scans + 1,
                       result |-> IF st = "rate_limited" THEN -1 ELSE 0]
            /\ UNCHANGED scan_vars
            /\ UNCHANGED replies
       ELSE \E found \in {search_recent_tweets(posts, strftime(last_check))} :
            \E new \in {replied_to(found, processed_tweets, answer)} :
                /\ replies' = [id \in DOMAIN replies |->
                                   IF /\ id \in attempted(found, processed_tweets)
                                      /\ answer[id] = "ok"
                                   THEN replies[id] + 1 ELSE replies[id]]
                /\ processed_tweets' = processed_tweets \cup new
                /\ last_check' = clock
                /\ out' = [op |-> "scan_and_reply", scans |-> out.scans + 1,
                           result |-> Cardinality(new)]
    /\ pc' = "wait"
    /\ UNCHANGED <<clock, trust_list, last_update, env, last_check_time,
                   check_count, current_time, triggers, posts, search,
                   prev_search, reply_vars>>

\* time.sleep(60)
SleepScan ==
    /\ pc = "wait"
    /\ clock' = clock + SecTicks(scan_interval)
    /\ pc' = "scan"
    /\ UNCHANGED <<trust_list, last_update, env, out, last_check_time,
                   check_count, current_time, triggers, posts, replies, search,
                   prev_search, reply_vars, scan_vars>>

NextScan ==
    \/ \E reply_to \in {NoUserId, TargetId} : TriggerPosted(reply_to)
    \/ \E st \in {"ok", "rate_limited", "error"},
          answer \in [1..MaxScanPosts -> {"ok", "nodata", "forbidden"}] :
           ScanAndReply(st, answer)
    \/ SleepScan

SpecScan == InitScan /\ [][NextScan]_vars

(***************************************************************************)
(* analyzer.py, trust_check.py: each analysis on inputs that differ in the *)
(* one signal it scores                                                    *)
(***************************************************************************)
\* accounts whose ratio lies on both sides of every step
RatioUsers ==
    {User(TargetId, Name_al, 800, followers, following, <<>>) :
        followers \in {0, 1, 2, 3, 4, 5, 9, 10, 11, 20},
        following \in {0, 1, 2, 4}}

\* posts whose likes put the rate of an account of 1000 followers on both
\* sides of every step (1 like is a rate of 0.1), no post at all, and an
\* account without followers
RateUsers ==
    {User(TargetId, Name_al, 800, followers, 0, <<>>) : followers \in {0, 1000}}
RateTimelines ==
    {<<Tweet(SampleTexts[1], <<likes, 0, 0>>)>> :
        likes \in {0, 1, 4, 5, 9, 10, 19, 20, 49, 50, 60}}
    \cup {<<>>,
          <<Tweet(SampleTexts[1], <<3, 1, 1>>), Tweet(SampleTexts[1], <<4, 0, 1>>)>>,
          <<Tweet(SampleTexts[1], <<3, 1, 1>>), Tweet(SampleTexts[1], <<3, 0, 1>>)>>}

\* up to three posts, each plain, on topic, suspicious, both, or the
\* fourth suspicious pattern itself
ContentTimelines ==
    UNION {[1..n -> {Tweet(SampleTexts[i], <<0, 0, 0>>) : i \in 1..5}] :
               n \in 1..3}

\* bios of one length that hold up to three positive and two suspicious
\* keywords
Word3 == {<<"c", "t", "o">>, <<"c", "e", "o">>, <<"x", "y", "z">>}
Word4 == {<<"d", "e", "f", "i">>, <<"m", "o", "o", "n">>,
          <<"p", "u", "m", "p">>, <<"w", "x", "y", "z">>}
KeywordBios ==
    {a \o <<" ">> \o b \o <<" ">> \o c \o <<" ">> \o d :
        a \in Word3, b \in Word3, c \in Word4, d \in Word4}

\* the trust list of BodyText once loaded
LoadedList == _update_trust_list(<<>>, NoTime, BodyText, Clock0).trust_list

SignalEnvs ==
    [kind : {"ratio"}, user : RatioUsers, tweets : {<<>>},
     followers : {NoFollowers}]
    \cup [kind : {"engagement"}, user : RateUsers, tweets : RateTimelines,
          followers : {NoFollowers}]
    \cup [kind : {"content"}, user : {User(TargetId, Name_al, 800, 0, 0, <<>>)},
          tweets : ContentTimelines, followers : {NoFollowers}]
    \cup [kind : {"bio"},
          user : {User(TargetId, Name_al, 800, 0, 0, b) : b \in KeywordBios},
          tweets : {<<>>}, followers : {NoFollowers}]
    \cup [kind : {"trust"}, user : {User(TargetId, Name_zed, 800, 0, 0, <<>>)},
          tweets : {<<>>}, followers : FollowerSamples]

InitSignal ==
    /\ clock = Clock0
    /\ trust_list = <<>>
    /\ last_update = NoTime
    /\ env \in SignalEnvs
    /\ out = NoOut
    /\ pc = "signal"
    /\ BotAtStart
    /\ NoMessage

\* the connections counted and the score lines 56-72 give for them
trust_connections_of(user, followers) ==
    LET trust_connections ==
            _check_follower_connections(user.username, LoadedList,
                                        [st |-> "ok"],
                                        [st |-> "ok", usernames |-> followers])
    IN  [trust_connections |-> trust_connections,
         trust_list_score |-> trust_score_of(user.username, LoadedList,
                                             [st |-> "ok"],
                                             [st |-> "ok", usernames |-> followers])]

\* the analysis of kind applied to an input
signal_analysis(e) ==
    CASE e.kind = "ratio" -> _analyze_follower_ratio(e.user).dict
      [] e.kind = "engagement" -> _analyze_engagement_metrics(e.user, e.tweets).dict
      [] e.kind = "content" -> _analyze_tweet_content(e.tweets).dict
      [] e.kind = "bio" -> _analyze_bio_content(e.user).dict
      [] e.kind = "trust" -> trust_connections_of(e.user, e.followers)

Analyze(kind) ==
    /\ pc = "signal"
    /\ out = NoOut
    /\ env.kind = kind
    /\ out' = [kind |-> kind, dict |-> signal_analysis(env)]
    /\ UNCHANGED <<clock, trust_list, last_update, env, bot_vars, reply_vars,
                   scan_vars>>

NextSignal ==
    \/ Analyze("ratio")
    \/ Analyze("engagement")
    \/ Analyze("content")
    \/ Analyze("bio")
    \/ Analyze("trust")

SpecSignal == InitSignal /\ [][NextSignal]_vars

(***************************************************************************)
(* utils.py: retry_on_failure around a function that may raise             *)
(***************************************************************************)
\* the calls of one wrapped function that are followed
MaxWrapperCalls == 2

\* the arguments of the decorator (line 35); the defaults are 3, 1, 2
RetryParams ==
    [max_retries : 0..4, delay : {0, 1, 2}, backoff : {1, 2, 3}]

\* a variant of line 48 that gives up one failure later
retry_gives_up_late(retries, max_retries) == retries > max_retries

\* line 48: if retries >= max_retries
retry_gives_up(retries, max_retries) == retries >= max_retries

\* the locals of wrapper at lines 40-41, and what this call has done so far
RetryStart(calls, delay) ==
    [op |-> "retry", calls |-> calls, retries |-> 0, current_delay |-> delay,
     invocations |-> 0, slept |-> <<>>, last |-> "none", result |-> "none"]

InitRetry ==
    /\ clock = Clock0
    /\ trust_list = <<>>
    /\ last_update = NoTime
    /\ env \in RetryParams
    /\ out = RetryStart(0, env.delay)
    /\ pc = "idle"
    /\ BotAtStart
    /\ NoMessage

\* wrapper is called: lines 40-43, up to the first test of the while loop,
\* and line 56 when the loop is not entered
CallWrapper ==
    /\ pc = "idle"
    /\ out.calls < MaxWrapperCalls
    /\ out' = [RetryStart(out.calls + 1, env.delay) EXCEPT
                   !.result = IF 0 < env.max_retries THEN "none" ELSE "None"]
    /\ pc' = IF 0 < env.max_retries THEN "loop" ELSE "idle"
    /\ UNCHANGED <<clock, trust_list, last_update, env, last_check_time,
                   check_count, current_time, triggers, posts, replies, search,
                   prev_search, reply_vars, scan_vars>>

\* one pass of the loop body, lines 43-54: func is invoked and returns or
\* raises; on an exception retries grows, and the wrapper re-raises or
\* sleeps current_delay, multiplies it and tests the while condition again
InvokeFunc(raises) ==
    /\ pc = "loop"
    /\ LET retries == out.retries + 1
           invoked == [out EXCEPT !.invocations = @ + 1,
                                  !.last = IF raises THEN "raised" ELSE "returned"]
       IN  IF ~raises
           THEN /\ out' = [invoked EXCEPT !.result = "returned"]
                /\ pc' = "idle"
                /\ clock' = clock
           ELSE IF retry_gives_up(retries, env.max_retries)
           THEN /\ out' = [invoked EXCEPT !.retries = retries, !.result = "raised"]
                /\ pc' = "idle"
                /\ clock' = clock
           ELSE /\ clock' = clock + SecTicks(out.current_delay)
                /\ \E again \in {retries < env.max_retries} :
                       /\ out' = [invoked EXCEPT
                                      !.retries = retries,
                                      !.slept = Append(@, out.current_delay),
                                      !.current_delay = @ * env.backoff,
                                      !.result = IF again THEN "none" ELSE "None"]
                       /\ pc' = IF again THEN "loop" ELSE "idle"
    /\ UNCHANGED <<trust_list, last_update, env, last_check_time, check_count,
                   current_time, triggers, posts, replies, search, prev_search,
                   reply_vars, scan_vars>>

NextRetry ==
    \/ CallWrapper
    \/ \E raises \in BOOLEAN : InvokeFunc(raises)

SpecRetry == InitRetry /\ [][NextRetry]_vars

(***************************************************************************)
(* utils.py: rate_limit around a function                                  *)
(***************************************************************************)
\* the calls of one wrapped function that are followed
MaxLimitedCalls == 4

\* the arguments of the decorator (line 12), period in seconds; the
\* defaults are 100 and 3600
LimitParams == [max_calls : {1, 2}, period : {2, 3}]

\* the ticks that may pass between two calls of the wrapper
CallGaps == {1, 2, 3, 7}

RECURSIVE SelectRecent(_, _, _)
\* line 21: [call_time for call_time in func.calls if now - call_time < period]
SelectRecent(calls, now, period) ==
    IF calls = <<>> THEN <<>>
    ELSE IF now - Head(calls) < period
    THEN <<Head(calls)>> \o SelectRecent(Tail(calls), now, period)
    ELSE SelectRecent(Tail(calls), now, period)

\* wrapper, lines 19-30, called at time now with func.calls = calls: the
\* time it sleeps and func.calls as it is when func is invoked
rate_limit_wrapper(calls, now, max_calls, period) ==
    LET recent == SelectRecent(calls, now, period)
    IN  IF Len(recent) >= max_calls
        THEN [sleep_time |-> period - (now - recent[1]),
              calls |-> Append(<<>>, now)]
        ELSE [sleep_time |-> 0, calls |-> Append(recent, now)]

\* func.calls = [] at decoration (line 15); invoked is the history of the
\* times at which func has been invoked
InitLimit ==
    /\ clock = Clock0
    /\ trust_list = <<>>
    /\ last_update = NoTime
    /\ env \in LimitParams
    /\ out = [op |-> "rate_limit", calls |-> <<>>, invoked |-> <<>>]
    /\ pc = "limit"
    /\ BotAtStart
    /\ NoMessage

\* one call of the wrapper, from time.time() on line 19 to the invocation
\* of func on line 30
CallLimited ==
    /\ pc = "limit"
    /\ Len(out.invoked) < MaxLimitedCalls
    /\ \E r \in {rate_limit_wrapper(out.calls, clock, env.max_calls,
                                    SecTicks(env.period))} :
           /\ clock' = clock + r.sleep_time
           /\ out' = [out EXCEPT !.calls = r.calls,
                                 !.invoked = Append(@, clock + r.sleep_time)]
    /\ UNCHANGED <<trust_list, last_update, env, bot_vars, reply_vars, scan_vars>>

\* time passes before the next call
WaitForCall(d) ==
    /\ pc = "limit"
    /\ out.invoked # <<>>
    /\ Len(out.invoked) < MaxLimitedCalls
    /\ clock - out.invoked[Len(out.invoked)] = 0
    /\ clock' = clock + d
    /\ UNCHANGED <<trust_list, last_update, env, out, bot_vars, reply_vars,
                   scan_vars>>

NextLimit ==
    \/ CallLimited
    \/ \E d \in CallGaps : WaitForCall(d)

SpecLimit == InitLimit /\ [][NextLimit]_vars

(***************************************************************************)
(* Claims                                                                  *)
(***************************************************************************)
\* C1: whenever an account is scored, each of the six sub-scores lies in
\* [0,100] and so does the final score.
C1_ScoresInRange ==
    out.scored =>
        /\ \A k \in SubScores :
               k \in DOMAIN out.analysis /\ InRange(out.analysis[k])
        /\ InRange(out.final_score)

C1_Witness ==
    /\ out.scored
    /\ out.analysis.bio_score = Num(100)
    /\ out.analysis.trust_list_score = Num(100)
    /\ out.analysis.content_score = Num(100)

\* C3: the scorer is total.  For every well-formed account snapshot the
\* analyses finish without a caught ZeroDivisionError, a final score in
\* [0,100] is computed and the response carries one of the four levels.
C3_ScorerTotal ==
    (out # NoOut /\ env.profile.st = "ok") =>
        /\ out.scored
        /\ out.caught = {}
        /\ InRange(out.final_score)
        /\ out.response.trust_level \in TrustLevels

C3_Witness ==
    /\ out.scored
    /\ env.profile.user.public_metrics.followers_count = 0
    /\ env.profile.user.public_metrics.following_count = 0
    /\ env.profile.user.description = <<>>
    /\ env.timeline.tweets = <<>>
    /\ out.response.trust_level = "HIGH RISK"

\* C9 as stated: whatever fetch fails, the pipeline still produces a final
\* score in [0,100] and a trust level.
C9_NeverAborts ==
    out # NoOut =>
        /\ out.scored
        /\ InRange(out.final_score)
        /\ out.response.trust_level \in TrustLevels

\* C9 amended: a failed recent-posts, trust-list or follower fetch degrades
\* the affected sub-scores to 0 and the pipeline still produces a final
\* score in [0,100] and a trust level; a failed profile lookup ends the
\* analysis without a score.
C9_DegradesUnlessProfileFails ==
    out # NoOut =>
        /\ env.profile.st # "ok" => ~out.scored
        /\ env.profile.st = "ok" =>
               /\ out.scored
               /\ InRange(out.final_score)
               /\ out.response.trust_level \in TrustLevels
               /\ env.timeline.st # "ok" =>
                      /\ out.analysis.engagement_score = Num(0)
                      /\ out.analysis.content_score = Num(0)
               /\ (Raises(env.trust_fetch.st) /\ out.trust_list = <<>>) =>
                      out.analysis.trust_list_score = Num(0)
               /\ (Raises(env.followers.st)
                      /\ ~in_trust_list(env.username, out.trust_list)) =>
                      out.analysis.trust_list_score = Num(0)

C9_Witness ==
    /\ out.scored
    /\ env.timeline.st = "error"
    /\ env.trust_fetch.st = "error"
    /\ env.followers.st = "error"
    /\ out.analysis.trust_list_score = Num(0)

\* C7: a username that equals an entry of the cached trust list up to
\* letter case gets 100 from check_trust_list, whoever follows the account.
C7_MemberScores100 ==
    (out.op = "check" /\ MemberCI(out.username, trust_list)) => out.score = 100

\* C4 as stated: once a fetch has succeeded at time t (last_update = t), a
\* call of check_trust_list or get_trust_list_info fetches again if and
\* only if it is made at or after t + 1 hour.
C4_FetchOnlyAfterTTL ==
    (out.op \in {"check", "info"} /\ out.prev_update # NoTime) =>
        (out.fetched <=> out.at - out.prev_update >= cache_duration)

\* C4 amended: once a fetch that yielded a non-empty list has succeeded at
\* time t, a call fetches again if and only if it is made at or after
\* t + 1 hour; while the cached list is empty or no fetch has succeeded,
\* every call fetches.
C4_FetchOnlyAfterTTLUnlessEmpty ==
    out.op \in {"check", "info"} =>
        /\ (out.prev_update # NoTime /\ out.prev_list # <<>>) =>
               (out.fetched <=> out.at - out.prev_update >= cache_duration)
        /\ (out.prev_list = <<>> \/ out.prev_update = NoTime) => out.fetched

C4_Witness ==
    /\ out.op = "check"
    /\ out.prev_list # <<>>
    /\ out.prev_update # NoTime
    /\ out.at - out.prev_update = cache_duration
    /\ out.fetched

C4_WitnessCached ==
    /\ out.op = "info"
    /\ out.prev_update # NoTime
    /\ out.at - out.prev_update = cache_duration - 1
    /\ ~out.fetched

\* the literal phrase of the claims about trigger detection
phrase_literal ==
    <<"r", "i", "d", "d", "l", "e", " ", "m", "e", " ", "t", "h", "i", "s">>

\* the text holds the phrase in some letter case
PhraseIn(text) ==
    \E i \in 1..Len(text) :
        /\ i + Len(phrase_literal) - 1 <= Len(text)
        /\ \A j \in 1..Len(phrase_literal) :
               LowerChar(text[i + j - 1]) = phrase_literal[j]

IsReply(p) == p.in_reply_to_user_id # NoUserId

\* the post is among the triggers the last answered search emitted
Emitted(p) ==
    \E i \in DOMAIN search.emitted : search.emitted[i].reply_tweet_id = p.id

\* C2: no trigger post receives more than one posted reply, whatever the
\* sequence of polls.
C2_AtMostOneReply ==
    \A id \in 1..MaxPosts : replies[id] <= 1

UsernameLookupRaises == ~search.res.included /\ Raises(search.res.fallback)

C8_RunNeverCrashes ==
    pc \in {"check", "search", "process", "sleep"}

C8_Witness ==
    /\ prev_search.st = "error"
    /\ search.st = "ok"
    /\ out.op = "process"
    /\ out.scored
    /\ out.success = "False"
    /\ pc = "sleep"

\* C10: a rate-limited search is not sent again within its poll: one
\* search request leaves in that poll, the poll returns no trigger and goes
\* to the loop's sleep, and the next search leaves no sooner than the sleep
\* interval after it.
C10_NoRetryWithinCycle ==
    /\ search.limited =>
           /\ search.requests = 1
           /\ pc # "search" => (triggers = <<>> /\ pc \in {"sleep", "check"})
    /\ (prev_search.limited /\ search.st # "none") =>
           search.at >= prev_search.at + SecTicks(check_interval)

\* the 1-based positions of the spaces at which _truncate_message may cut
WordCuts(m) == {k \in (min_word_cut + 2)..cut_at : m[k] = " "}

\* C6 as stated: a message longer than 280 characters is submitted as a
\* prefix cut at a space, followed by the marker, in at most 280
\* characters; a shorter one is submitted unchanged.
C6_CutAtWordBoundary ==
    submitted # NoText =>
        IF Len(reply_message) <= tweet_limit
        THEN submitted = reply_message
        ELSE /\ Len(submitted) <= tweet_limit
             /\ \E k \in 0..(Len(reply_message) - 1) :
                    /\ reply_message[k + 1] = " "
                    /\ submitted = SubSeq(reply_message, 1, k) \o continuation_marker

\* C6 amended: a message longer than 280 characters is submitted as a
\* prefix followed by the marker "... (1/2)", in at most 279 characters; the
\* prefix ends before the last space among the first 270 characters when
\* that space lies beyond index 200, and is the first 270 characters
\* otherwise; a message of at most 280 characters is submitted unchanged.
C6_CutAtWordBoundaryOr270 ==
    submitted # NoText =>
        IF Len(reply_message) <= tweet_limit
        THEN submitted = reply_message
        ELSE /\ Len(submitted) <= tweet_limit - 1
             /\ submitted =
                    (IF WordCuts(reply_message) # {}
                     THEN SubSeq(reply_message, 1,
                                 (CHOOSE k \in WordCuts(reply_message) :
                                      \A j \in WordCuts(reply_message) : j <= k) - 1)
                     ELSE SubSeq(reply_message, 1, cut_at))
                    \o <<".", ".", ".", " ", "(", "1", "/", "2", ")">>

C6_Witness ==
    /\ submitted # NoText
    /\ Len(reply_message) = 310
    /\ Len(submitted) = 279
    /\ reply_message[cut_at + 1] # " "
    /\ out.success = "True"

C6_WitnessWordCut ==
    /\ submitted # NoText
    /\ Len(reply_message) = tweet_limit + 1
    /\ Len(submitted) = 259

\* C11: a Forbidden or rate-limit answer to the reply is a soft failure:
\* post_reply returns False, the bot's state is as before, and the reply
\* was submitted once.
C11_SoftFailureOneAttempt ==
    (out.op = "post_reply" /\ out.answer \in {"forbidden", "rate_limited"}) =>
        /\ out.success = "False"
        /\ out.attempts <= 1
        /\ trust_list = <<>> /\ last_update = NoTime
        /\ triggers = <<>> /\ search = NoSearch
        /\ \A id \in 1..MaxPosts : replies[id] = 0

\* C12: an account that follows nobody is scored without a division by zero.
\* With no followers either the ratio is 1 and follower_ratio_score is 40;
\* with followers the ratio is followers_count.
C12_ZeroFollowing ==
    (out.scored /\ env.profile.user.public_metrics.following_count = 0) =>
        LET followers == env.profile.user.public_metrics.followers_count IN
        /\ "_analyze_follower_ratio" \notin out.caught
        /\ followers = 0 =>
               /\ out.analysis.follower_ratio = Num(1)
               /\ out.analysis.follower_ratio_score = Num(40)
        /\ followers > 0 => out.analysis.follower_ratio = Num(followers)

C12_Witness ==
    /\ out.scored
    /\ env.profile.user.public_metrics.following_count = 0
    /\ env.profile.user.public_metrics.followers_count = 0
    /\ out.analysis.follower_ratio_score = Num(40)

C12_WitnessFollowers ==
    /\ out.scored
    /\ env.profile.user.public_metrics.following_count = 0
    /\ env.profile.user.public_metrics.followers_count = 10
    /\ out.analysis.follower_ratio = Num(10)

\* the steps of account_age_score as C13 lists them
AgeTier(age_days) ==
    IF age_days >= 730 THEN 100
    ELSE IF age_days >= 365 THEN 80
    ELSE IF age_days >= 180 THEN 60
    ELSE IF age_days >= 90 THEN 40
    ELSE IF age_days >= 30 THEN 20
    ELSE 10

\* the whole days between the account's creation and now
AgeDays == (clock - env.profile.user.created_at) \div DayTicks

\* C13: account_age_score is the step function of the account's age in days
\* (730: 100, 365: 80, 180: 60, 90: 40, 30: 20, below: 10), and no younger
\* account scores higher than an older one.
C13_AgeSteps ==
    (pc = "age" /\ out # NoOut) =>
        /\ out.account_age_days = AgeDays
        /\ out.account_age_score = Num(AgeTier(AgeDays))
        /\ \A younger \in 0..AgeDays :
               QLe(_analyze_account_age(
                       User(TargetId, Name_al, younger, 0, 0, <<>>), Clock0
                   ).dict.account_age_score,
                   out.account_age_score)

C13_Witness ==
    /\ pc = "age" /\ out # NoOut
    /\ AgeDays = 730
    /\ clock = Clock0 + DayTicks - 1
    /\ out.account_age_score = Num(100)

C13_WitnessBelowStep ==
    /\ pc = "age" /\ out # NoOut
    /\ AgeDays = 29
    /\ out.account_age_score = Num(10)

\* two runs gave the same sub-scores, final score and trust level
SameResult(a, b) ==
    /\ a.scored = b.scored
    /\ a.scored =>
           /\ \A k \in SubScores : a.analysis[k] = b.analysis[k]
           /\ a.final_score = b.final_score
           /\ a.response.trust_level = b.response.trust_level

\* the step of account_age_score the account is on at a run
AgeTierAt(run) ==
    AgeTier((run.at - env.profile.user.created_at) \div DayTicks)

\* C14 as stated: two runs of the pipeline on the same snapshot, posts and
\* username give the same sub-scores, final score and trust level, whatever
\* the cache holds and whatever the clock shows.
C14_Idempotent ==
    pc = "done" => SameResult(out.first, out.second)

\* C14 amended: the two runs give the same result whenever the account is on
\* the same step of the age table at both runs.
C14_IdempotentWithinAgeStep ==
    (pc = "done" /\ AgeTierAt(out.first) = AgeTierAt(out.second)) =>
        SameResult(out.first, out.second)

\* the first run fetched the trust list, the second one answered from the
\* cache
C14_Witness ==
    /\ pc = "done"
    /\ out.first.fetched /\ ~out.second.fetched
    /\ out.first.analysis.trust_list_score = Num(100)
    /\ SameResult(out.first, out.second)

\* the second run fetched the list again after the cache had expired
C14_WitnessRefetch ==
    /\ pc = "done"
    /\ out.first.fetched /\ out.second.fetched
    /\ out.second.at - out.first.at >= cache_duration
    /\ env.trust_fetch = BodyText
    /\ SameResult(out.first, out.second)

\* the account of C15: 800 days old, 2847 followers, 1523 following, the bio
\* "Crypto enthusiast | NFT collector | DeFi explorer", 10 recent posts of
\* 50 interactions each
IsSampleAccount ==
    /\ env.profile.st = "ok"
    /\ env.profile.user = User(7, Name_al, 800, 2847, 1523, SampleBios[2])
    /\ env.timeline.st = "ok"
    /\ Len(env.timeline.tweets) = 10
    /\ \A i \in 1..10 :
           env.timeline.tweets[i].public_metrics =
               [like_count |-> 30, retweet_count |-> 15, reply_count |-> 5]

\* C15 as stated: the sample account scores 100 for age, 60 for the follower
\* ratio and 60 for engagement, and its final score is at least 60 whatever
\* content_score and trust_list_score are.
C15_SampleAccount ==
    (out.scored /\ IsSampleAccount) =>
        /\ out.analysis.account_age_score = Num(100)
        /\ out.analysis.follower_ratio_score = Num(60)
        /\ out.analysis.engagement_score = Num(60)
        /\ QGe(out.final_score, Num(60))
        /\ out.response.trust_level \in {"MODERATELY TRUSTED", "HIGHLY TRUSTED"}

\* C15 amended: the sample account scores 100 for age, 40 for the follower
\* ratio (2847 / 1523 is below 2), 60 for engagement and 57.4 for the bio; its
\* final score is 43.74 + 0.2 * content_score + 0.1 * trust_list_score, so
\* the level is caution advised or moderately trusted.
C15_SampleAccountRatio40 ==
    (out.scored /\ IsSampleAccount) =>
        /\ out.analysis.account_age_score = Num(100)
        /\ out.analysis.follower_ratio_score = Num(40)
        /\ out.analysis.engagement_score = Num(60)
        /\ out.analysis.bio_score = Q(574, 10)
        /\ out.final_score =
               QAdd(Q(4374, 100),
                    QAdd(QMul(out.analysis.content_score, Q(20, 100)),
                         QMul(out.analysis.trust_list_score, Q(10, 100))))
        /\ out.response.trust_level \in {"CAUTION ADVISED", "MODERATELY TRUSTED"}

\* the sample account, scored below 60
C15_Witness ==
    /\ out.scored /\ IsSampleAccount
    /\ QLt(out.final_score, Num(60))
    /\ out.response.trust_level = "CAUTION ADVISED"

\* the sample account on the trust list, with posts that mention Solana
C15_WitnessTrusted ==
    /\ out.scored /\ IsSampleAccount
    /\ out.analysis.trust_list_score = Num(100)
    /\ out.response.trust_level = "MODERATELY TRUSTED"

\* the account of C16: 5 days old, no followers, following nobody, an empty
\* bio, no posts, not on the trust list (and, having no followers, followed
\* by nobody on it)
IsEmptyAccount ==
    /\ env.profile.st = "ok"
    /\ env.profile.user = User(7, Name_al, 5, 0, 0, <<>>)
    /\ env.timeline.tweets = <<>>
    /\ env.username = Name_zed
    /\ env.followers.usernames = NoFollowers

\* C16: the empty account scores 10 for age, 40 for the follower ratio and 0
\* for bio, engagement, content and trust list; its level is high risk.
C16_EmptyAccountHighRisk ==
    (out # NoOut /\ IsEmptyAccount) =>
        /\ out.scored
        /\ out.analysis.account_age_score = Num(10)
        /\ out.analysis.follower_ratio_score = Num(40)
        /\ out.analysis.bio_score = Num(0)
        /\ out.analysis.engagement_score = Num(0)
        /\ out.analysis.content_score = Num(0)
        /\ out.analysis.trust_list_score = Num(0)
        /\ out.response.trust_level = "HIGH RISK"

C16_Witness ==
    /\ out.scored /\ IsEmptyAccount
    /\ env.trust_fetch = BodyText
    /\ env.timeline.st = "ok"
    /\ out.final_score = Q(95, 10)
    /\ out.response.trust_level = "HIGH RISK"

\* the sub-score the analysis dict holds under a key, 0 when it holds none
SubScore(k) == IF k \in DOMAIN env.analysis THEN env.analysis[k] ELSE Num(0)

\* the sum C17 gives
DocumentedSum ==
    QAdd(QMul(SubScore("account_age_score"), Q(15, 100)),
    QAdd(QMul(SubScore("follower_ratio_score"), Q(20, 100)),
    QAdd(QMul(SubScore("bio_score"), Q(10, 100)),
    QAdd(QMul(SubScore("engagement_score"), Q(25, 100)),
    QAdd(QMul(SubScore("content_score"), Q(20, 100)),
         QMul(SubScore("trust_list_score"), Q(10, 100)))))))

\* C17: the final score is 0.15 age + 0.20 ratio + 0.10 bio + 0.25 engagement
\* + 0.20 content + 0.10 trust list, kept within [0,100]; a sub-score the
\* analysis lacks counts as 0.
C17_WeightedSum ==
    pc \in {"respond", "responded"} =>
        /\ out.final_score =
               (IF QGe(DocumentedSum, Num(100)) THEN Num(100)
                ELSE IF QLe(DocumentedSum, Num(0)) THEN Num(0)
                ELSE DocumentedSum)
        /\ InRange(out.final_score)

\* an analysis that lacks two sub-scores
C17_Witness ==
    /\ pc = "respond"
    /\ DOMAIN env.analysis = SubScores \ {"bio_score", "trust_list_score"}
    /\ env.analysis.content_score = Num(100)
    /\ env.analysis.engagement_score = Num(40)
    /\ out.final_score = DocumentedSum
    /\ QGe(out.final_score, Num(30))

C17_WitnessFull ==
    /\ pc = "respond"
    /\ \A k \in SubScores : k \in DOMAIN env.analysis /\ env.analysis[k] = Num(100)
    /\ out.final_score = Num(100)

\* the levels, lowest first
LevelRank(level) ==
    CASE level = "HIGH RISK" -> 0
      [] level = "CAUTION ADVISED" -> 1
      [] level = "MODERATELY TRUSTED" -> 2
      [] level = "HIGHLY TRUSTED" -> 3

\* C18: every final score has a level: highly trusted from 80, moderately
\* trusted from 60, caution advised from 40, high risk below; a lower score
\* never has a higher level.
C18_LevelSteps ==
    pc = "responded" =>
        /\ out.response.trust_level \in TrustLevels
        /\ out.response.trust_level =
               (IF QGe(out.final_score, Num(80)) THEN "HIGHLY TRUSTED"
                ELSE IF QGe(out.final_score, Num(60)) THEN "MODERATELY TRUSTED"
                ELSE IF QGe(out.final_score, Num(40)) THEN "CAUTION ADVISED"
                ELSE "HIGH RISK")
        /\ \A smaller \in 0..100 :
               QLe(Num(smaller), out.final_score) =>
                   LevelRank(trust_level_of(Num(smaller)))
                       <= LevelRank(out.response.trust_level)

C18_Witness ==
    /\ pc = "responded"
    /\ out.final_score = Num(80)
    /\ out.response.trust_level = "HIGHLY TRUSTED"

C18_WitnessBelow ==
    /\ pc = "responded"
    /\ out.final_score = Q(399, 10)
    /\ out.response.trust_level = "HIGH RISK"

\* the names on the sample bodies of the trust-list URL, as the body writes
\* them without the optional '@'
WrittenNames(fetch) ==
    IF fetch = BodyText
    THEN {<<"A", "l">>, <<"b", "o">>, <<"c">>, <<"d">>, <<"e">>, <<"f">>}
    ELSE IF fetch = BodyJson THEN {<<"a", "l">>, <<"B", "o">>}
    ELSE {}

\* a run that found the list of the body loaded
LoadedRuns ==
    {run \in {out.first, out.second} :
        run # NoOut /\ env.trust_fetch \in {BodyText, BodyJson}}

\* C19: once the list is loaded from a text body or from a JSON array, no
\* entry starts with '@', and a username that equals a name on the body up
\* to letter case scores 100, whether the body writes 'name' or '@name'.
C19_StrippedCaseInsensitive ==
    \A run \in LoadedRuns :
        /\ run.last_update # NoTime
        /\ Len(run.trust_list) = Cardinality(WrittenNames(env.trust_fetch))
        /\ \A i \in DOMAIN run.trust_list :
               /\ run.trust_list[i] \in WrittenNames(env.trust_fetch)
               /\ Head(run.trust_list[i]) # "@"
        /\ (\E name \in WrittenNames(env.trust_fetch) :
                lower(name) = lower(env.username))
               => run.analysis.trust_list_score = Num(100)

\* '@al' of a JSON array, asked for as 'AL'
C19_Witness ==
    /\ out.first # NoOut
    /\ env.trust_fetch = BodyJson
    /\ env.username = Name_AL
    /\ env.followers.usernames = NoFollowers
    /\ out.first.trust_list[1] = Name_al
    /\ out.first.analysis.trust_list_score = Num(100)

\* 'bo' of a text body, written without '@', asked for as 'BO' and answered
\* from the cache
C19_WitnessText ==
    /\ pc = "done"
    /\ env.trust_fetch = BodyText
    /\ env.username = <<"B", "O">>
    /\ env.followers.usernames = NoFollowers
    /\ ~out.second.fetched
    /\ out.second.analysis.trust_list_score = Num(100)

\* the bound N of C20 on the ids kept
ProcessedBound == 3

\* C20: the set of the ids of the posts already replied to never holds more
\* than N ids.
C20_ProcessedIdsBounded ==
    Cardinality(processed_tweets) <= ProcessedBound

\* what each analysis gives on all the inputs of its kind
AnalysesOf(kind) == {signal_analysis(e) : e \in {x \in SignalEnvs : x.kind = kind}}
RatioAnalyses == AnalysesOf("ratio")
EngagementAnalyses == AnalysesOf("engagement")
ContentAnalyses == AnalysesOf("content")
BioAnalyses == AnalysesOf("bio")
TrustAnalyses == AnalysesOf("trust")

\* C21: no sub-score falls as its signal grows.  The follower-ratio score
\* follows the ratio, the engagement score the engagement rate, the content
\* score rises with the posts on topic and falls with the suspicious posts
\* (same number of posts), the bio score rises with the positive and falls
\* with the suspicious keywords (same length), the trust-list score follows
\* the trust connections.
C21_SubScoresMonotone ==
    /\ (pc = "signal" /\ out # NoOut /\ out.kind = "ratio") =>
           \A a \in RatioAnalyses :
               QLe(a.follower_ratio, out.dict.follower_ratio)
                   => QLe(a.follower_ratio_score, out.dict.follower_ratio_score)
    /\ (pc = "signal" /\ out # NoOut /\ out.kind = "engagement") =>
           \A a \in EngagementAnalyses :
               (/\ "engagement_rate" \in DOMAIN a
                /\ "engagement_rate" \in DOMAIN out.dict
                /\ QLe(a.engagement_rate, out.dict.engagement_rate))
                   => QLe(a.engagement_score, out.dict.engagement_score)
    /\ (pc = "signal" /\ out # NoOut /\ out.kind = "content") =>
           \A a \in ContentAnalyses :
               a.tweet_count = out.dict.tweet_count =>
                   /\ (/\ a.suspicious_content = out.dict.suspicious_content
                       /\ a.solana_mentions <= out.dict.solana_mentions)
                          => QLe(a.content_score, out.dict.content_score)
                   /\ (/\ a.solana_mentions = out.dict.solana_mentions
                       /\ a.suspicious_content <= out.dict.suspicious_content)
                          => QGe(a.content_score, out.dict.content_score)
    /\ (pc = "signal" /\ out # NoOut /\ out.kind = "bio") =>
           \A a \in BioAnalyses :
               a.bio_length = out.dict.bio_length =>
                   /\ (/\ a.bio_suspicious_keywords = out.dict.bio_suspicious_keywords
                       /\ a.bio_positive_keywords <= out.dict.bio_positive_keywords)
                          => QLe(a.bio_score, out.dict.bio_score)
                   /\ (/\ a.bio_positive_keywords = out.dict.bio_positive_keywords
                       /\ a.bio_suspicious_keywords <= out.dict.bio_suspicious_keywords)
                          => QGe(a.bio_score, out.dict.bio_score)
    /\ (pc = "signal" /\ out # NoOut /\ out.kind = "trust") =>
           \A a \in TrustAnalyses :
               a.trust_connections <= out.dict.trust_connections
                   => a.trust_list_score <= out.dict.trust_list_score

\* three trusted followers, scored above the accounts with fewer
C21_Witness ==
    /\ pc = "signal" /\ out # NoOut /\ out.kind = "trust"
    /\ out.dict.trust_connections = 3
    /\ out.dict.trust_list_score = 80
    /\ \E a \in TrustAnalyses :
           a.trust_connections = 2 /\ a.trust_list_score = 60

\* two suspicious keywords outweigh one positive keyword
C21_WitnessBio ==
    /\ pc = "signal" /\ out # NoOut /\ out.kind = "bio"
    /\ out.dict.bio_positive_keywords = 1
    /\ out.dict.bio_suspicious_keywords = 2
    /\ \E a \in BioAnalyses :
           /\ a.bio_positive_keywords = 1 /\ a.bio_suspicious_keywords = 0
           /\ QLt(out.dict.bio_score, a.bio_score)

\* a suspicious post among three lowers the content score
C21_WitnessContent ==
    /\ pc = "signal" /\ out # NoOut /\ out.kind = "content"
    /\ out.dict.tweet_count = 3
    /\ out.dict.solana_mentions = 2 /\ out.dict.suspicious_content = 1
    /\ \E a \in ContentAnalyses :
           /\ a.tweet_count = 3 /\ a.solana_mentions = 2
           /\ a.suspicious_content = 0
           /\ QLt(out.dict.content_score, a.content_score)

\* the likes, retweets and replies of all the posts together
RECURSIVE TotalInteractions(_)
TotalInteractions(tweets) ==
    IF tweets = <<>> THEN 0
    ELSE Head(tweets).public_metrics.like_count
         + Head(tweets).public_metrics.retweet_count
         + Head(tweets).public_metrics.reply_count
         + TotalInteractions(Tail(tweets))

\* the rate C22 gives: interactions per post per follower, in percent
DocumentedRate ==
    IF env.user.public_metrics.followers_count = 0 THEN Num(0)
    ELSE QMul(TrueDiv(TrueDiv(Num(TotalInteractions(env.tweets)),
                              Num(Len(env.tweets))),
                      Num(env.user.public_metrics.followers_count)),
              Num(100))

\* C22: without recent posts the engagement averages and the score are 0;
\* otherwise the rate is interactions / posts / followers * 100 (0 without
\* followers) and the score is 100 from 5, 80 from 2, 60 from 1, 40 from
\* 0.5, 20 from 0.1 and 10 below.
C22_EngagementSteps ==
    (pc = "signal" /\ out # NoOut /\ out.kind = "engagement") =>
        IF env.tweets = <<>>
        THEN /\ out.dict.avg_likes = Num(0)
             /\ out.dict.avg_retweets = Num(0)
             /\ out.dict.avg_replies = Num(0)
             /\ out.dict.avg_engagement = Num(0)
             /\ out.dict.engagement_score = Num(0)
        ELSE /\ out.dict.engagement_rate = DocumentedRate
             /\ out.dict.engagement_score =
                    (IF QGe(DocumentedRate, Num(5)) THEN Num(100)
                     ELSE IF QGe(DocumentedRate, Num(2)) THEN Num(80)
                     ELSE IF QGe(DocumentedRate, Num(1)) THEN Num(60)
                     ELSE IF QGe(DocumentedRate, Q(1, 2)) THEN Num(40)
                     ELSE IF QGe(DocumentedRate, Q(1, 10)) THEN Num(20)
                     ELSE Num(10))

\* two posts of 10 interactions together: a rate of 0.5 on 1000 followers
C22_Witness ==
    /\ pc = "signal" /\ out # NoOut /\ out.kind = "engagement"
    /\ Len(env.tweets) = 2
    /\ env.user.public_metrics.followers_count = 1000
    /\ out.dict.engagement_rate = Q(1, 2)
    /\ out.dict.engagement_score = Num(40)

C22_WitnessNoPosts ==
    /\ pc = "signal" /\ out # NoOut /\ out.kind = "engagement"
    /\ env.tweets = <<>>
    /\ out.dict.engagement_score = Num(0)

C22_WitnessNoFollowers ==
    /\ pc = "signal" /\ out # NoOut /\ out.kind = "engagement"
    /\ env.tweets # <<>>
    /\ env.user.public_metrics.followers_count = 0
    /\ out.dict.engagement_score = Num(10)

\* the posts that hold one of the keywords, whatever the letter case
PostsHolding(tweets, keywords) ==
    Cardinality({i \in DOMAIN tweets :
        \E k \in DOMAIN keywords :
            Contains(lower(keywords[k]), lower(tweets[i].text))})

\* the score C23 gives for m posts on topic and s suspicious posts among n
DocumentedContentScore(m, s, n) ==
    QMax(Num(0),
         QSub(QMin(Num(100), QMul(TrueDiv(Num(m), Num(n)), Num(100))),
              QMin(Num(50), QMul(TrueDiv(Num(s), Num(n)), Num(100)))))

\* C23: over n >= 1 posts content_score is max(0, min(100, m/n*100) -
\* min(50, s/n*100)), m the posts that hold a domain keyword and s the posts
\* that hold a suspicious pattern, in any letter case; without posts it is 0.
C23_ContentScoreFormula ==
    (pc = "signal" /\ out # NoOut /\ out.kind = "content") =>
        out.dict.content_score =
            IF env.tweets = <<>> THEN Num(0)
            ELSE DocumentedContentScore(
                     PostsHolding(env.tweets, solana_keywords),
                     PostsHolding(env.tweets, suspicious_patterns),
                     Len(env.tweets))


\* the step on which check_for_triggers returns to run
PollReturns == pc = "search" /\ pc' # "search"

\* C24: a poll whose search was rate-limited returns with last_check_time
\* as it was, so that the next search starts from the same start time; a
\* poll that returns in any other way leaves last_check_time at the time
\* taken when the poll began.
C24_RateLimitKeepsWindow ==
    [][PollReturns =>
          IF search'.limited
          THEN last_check_time' = last_check_time
          ELSE last_check_time' = current_time]_vars


RECURSIVE Pow(_, _)
Pow(b, e) == IF e = 0 THEN 1 ELSE b * Pow(b, e - 1)

\* the sleeps after the first k failures: delay * backoff^(i-1) after the i-th
DocumentedSleeps(p, k) == [i \in 1..k |-> p.delay * Pow(p.backoff, i - 1)]

\* C25: a call of the wrapper invokes the function at most max_retries
\* times; the first invocation that returns ends the call with its result;
\* after the k-th failure, k < max_retries, the wrapper has slept
\* delay * backoff^(k-1) and invokes again; the max_retries-th failure is
\* re-raised with no sleep after it; a finished call invokes no more.
C25_RetryWithBackoff ==
    /\ [](/\ out.invocations <= env.max_retries
          /\ out.result = "returned" =>
                 /\ out.last = "returned"
                 /\ out.invocations = out.retries + 1
                 /\ out.slept = DocumentedSleeps(env, out.retries)
          /\ out.result = "raised" =>
                 /\ out.last = "raised"
                 /\ out.invocations = env.max_retries
                 /\ out.retries = env.max_retries
                 /\ out.slept = DocumentedSleeps(env, env.max_retries - 1)
          /\ (out.result = "none" /\ out.calls > 0) =>
                 /\ pc = "loop"
                 /\ out.invocations = out.retries
                 /\ out.retries < env.max_retries
                 /\ out.slept = DocumentedSleeps(env, out.retries)
          /\ out.result = "None" => env.max_retries = 0 /\ out.invocations = 0)
    /\ [][/\ out.result # "none" =>
                 (out'.calls = out.calls + 1 /\ out'.invocations = 0)
          /\ out'.calls = out.calls =>
                 /\ out'.invocations <= out.invocations + 1
                 /\ clock' - clock =
                        IF Len(out'.slept) > Len(out.slept)
                        THEN SecTicks(out'.slept[Len(out'.slept)]) ELSE 0]_vars

\* after two failures the third invocation returns
C25_Witness ==
    /\ out.op = "retry"
    /\ out.result = "returned"
    /\ out.invocations = 3
    /\ env.delay = 1 /\ env.backoff = 2
    /\ out.slept = <<1, 2>>

\* the last permitted invocation fails and the exception leaves the wrapper
C25_WitnessRaised ==
    /\ out.op = "retry"
    /\ out.result = "raised"
    /\ env.max_retries = 3
    /\ env.delay = 2 /\ env.backoff = 3
    /\ out.slept = <<2, 6>>


\* a reply with the phrase that was posted during the sleep before the poll
\* under way: no earlier search can have returned it
PostedSinceLastPoll(p) ==
    /\ IsReply(p) /\ PhraseIn(p.text)
    /\ p.created_at > current_time - SecTicks(check_interval)
    /\ p.created_at < current_time

\* C26: no reply with the phrase is skipped: when a poll returns and the
\* start time of the next search lies after the creation of such a reply
\* that no earlier search can have returned, the poll has returned it as a
\* trigger.
C26_NoTriggerSkipped ==
    [][PollReturns =>
          \A p \in posts :
              (PostedSinceLastPoll(p) /\ p.created_at < strftime(last_check_time'))
                  => \E i \in DOMAIN triggers' : triggers'[i].reply_tweet_id = p.id]_vars


\* the call tried a refresh that did not reach the assignment of last_update
RefreshFailed ==
    /\ out.op \in {"check", "info"}
    /\ out.fetched
    /\ last_update = out.prev_update

\* C27: a refresh that fails leaves the cached trust list and last_update
\* as they were, and check_trust_list answers 0 when no list was cached.
C27_FailedRefreshKeepsCache ==
    RefreshFailed =>
        /\ trust_list = out.prev_list
        /\ (out.op = "check" /\ out.prev_list = <<>>) => out.score = 0


\* C28: the wrapped function is never invoked more than max_calls times
\* within a window of length period: any max_calls + 1 successive
\* invocations span at least the period.
C28_AtMostMaxCallsPerPeriod ==
    out.op = "rate_limit" =>
        \A i \in DOMAIN out.invoked :
            (i + env.max_calls) \in DOMAIN out.invoked =>
                out.invoked[i + env.max_calls] - out.invoked[i]
                    >= SecTicks(env.period)


\* C29: processed_tweets holds exactly the ids of the posts to which a
\* reply was posted; no post receives a second reply; a scan adds an id
\* only with the reply it posted, and a scan that posts no reply to a post
\* leaves processed_tweets without it.
C29_ProcessedIffReplied ==
    /\ [](out.op \in {"none", "scan_and_reply"} =>
             /\ processed_tweets = {id \in DOMAIN replies : replies[id] >= 1}
             /\ \A id \in DOMAIN replies : replies[id] <= 1)
    /\ [][\A id \in DOMAIN replies :
              /\ (id \in processed_tweets' \ processed_tweets)
                     <=> replies'[id] = replies[id] + 1
              /\ id \in processed_tweets => replies'[id] = replies[id]
              /\ id \in processed_tweets => id \in processed_tweets']_vars

\* a scan in which one reply was posted and another was refused
C29_Witness ==
    /\ out.op = "scan_and_reply"
    /\ out.result = 1
    /\ processed_tweets = {2}
    /\ \E p \in posts : p.id = 1 /\ p.in_reply_to_user_id # NoUserId
    /\ replies[1] = 0 /\ replies[2] = 1

\* a later scan finds a post it has answered and answers only the other
C29_WitnessRescan ==
    /\ out.op = "scan_and_reply"
    /\ out.scans = 2
    /\ out.result = 1
    /\ processed_tweets = {1, 2}
    /\ replies[1] = 1
    /\ \E p \in posts : p.id = 1 /\ p.created_at = Clock0
    /\ \E p \in posts : p.id = 2 /\ p.created_at > Clock0


\* C30: every trigger check_for_triggers returns names the replied-to
\* account: its original_author_username is a non-empty string, and a post
\* whose replied-to user is neither among the included users nor found by
\* the fallback lookup gives no trigger.
C30_TriggersCarryUsername ==
    /\ \A i \in DOMAIN triggers :
           /\ triggers[i].original_author_username # NoneName
           /\ triggers[i].original_author_username # <<>>
    /\ (search.st = "ok" /\ ~search.res.included /\ search.res.fallback # "ok")
           => search.emitted = <<>>

=============================================================================
